---- MODULE Spec2Model ----
(***************************************************************************)
(* into-md: the cache store (src/cache.ts), the fetch orchestrator        *)
(* (src/fetcher.ts) and the fallback detector (src/auto-detect.ts).        *)
(*                                                                         *)
(* Strings are sequences of UTF-16 code units, so that join, sort and the  *)
(* template literals of buildCachePath are computed as the code computes   *)
(* them.  SHA-256 is taken to be injective: a cache key is the byte string *)
(* handed to the hasher, and two keys are equal exactly when those strings *)
(* are equal.                                                              *)
(***************************************************************************)
EXTENDS Integers, Sequences, FiniteSets, TLC

VARIABLES
    \* ---- key derivation (buildCachePath applied to two option sets) ----
    kUrl,        \* the URL both keys are built for
    optsA,       \* first ExtractionOptions
    optsB,       \* second ExtractionOptions, derived from optsA
    keyA,        \* buildCachePath(kUrl, optsA), or NoKey before it is built
    keyB,        \* buildCachePath(kUrl, optsB), or NoKey before it is built
    kPhase,      \* "input" | "permuted" | "repeated" | "paired"
    \* ---- the cache directory and the clock ----
    files,       \* cache key -> the file stored under it
    now,         \* Date.now()
    \* ---- the last call of the cache module (src/cache.ts) ----
    lastRead,    \* the readFromCache call that has just returned, or NoCall
    \* ---- one orchestrateFetch call (src/fetcher.ts) ----
    pc,          \* where the call stands
    req,         \* url, mode and options of the call
    cacheEntry,  \* tryGetFromCache: what readFromCache returned
    cached,      \* orchestrateFetch: what tryGetFromCache returned
    staticResult,\* fetchWithAutoDetect: the static probe
    fetched,     \* orchestrateFetch: html, finalUrl, strategy of fetchWithMode
    outcome,     \* the FetchResult the call returned
    did,         \* what the call has done so far (counts per kind of step)
    failure,     \* the step whose rejection ended the call, or "none"
    rendered,    \* fetchWithBrowser: the kind of markup page.content() gave
    \* ---- calls in sequence ----
    prev,        \* request and outcome of the call before this one, or NoCall
    \* ---- the cache module of the orchestrator on its own ----
    lastWrite,   \* arguments of the most recent writeToCache call, or NoCall
    \* ---- the headless browser ----
    install,     \* one ensureBrowserInstalled call: environment and result
    browser,     \* one fetchWithBrowser call: the page and where the call stands
    \* ---- calls that run at the same time on one cache file ----
    calls,       \* process -> where its call stands and what it holds
    bytes,       \* the cache file they share: its text and modification time
    \* ---- the fallback detector (src/auto-detect.ts) ----
    doc,         \* the markup and options of one detectNeedForBrowser call
    detection    \* what that call evaluated and returned, or NoCall

keyVars == <<kUrl, optsA, optsB, keyA, keyB, kPhase>>
diskVars == <<files, now>>
cacheVars == <<lastRead, lastWrite>>

orchVars == <<pc, req, cacheEntry, cached, staticResult, fetched, outcome, did,
              failure, rendered>>
seqVars == <<prev>>
browserVars == <<install, browser>>
raceVars == <<calls, bytes>>
detectVars == <<doc, detection>>

vars == <<keyVars, diskVars, cacheVars, orchVars, seqVars, browserVars, raceVars,
          detectVars>>

Absent == "undefined"         \* a field or argument that is not there
NoCall == [op |-> "none"]     \* no call made yet

(***************************************************************************)
(* Bounds of the model.                                                    *)
(***************************************************************************)
MaxSelectors == 2      \* longest excludeSelectors list
MaxSelLen == 2         \* longest selector string
MaxTime == 2           \* the clock runs from 0 to MaxTime
MaxTtl == 2            \* ttlMs is drawn from 1..MaxTtl
MaxWrites == 2         \* writeToCache calls in a sequence of writes
MaxBlocks == 2         \* longest text of a cache entry, in blocks of one write(2)

(***************************************************************************)
(* Characters and string literals of src/cache.ts.                         *)
(***************************************************************************)
Comma == 44            \* "," of sorted.join(",")
Newline == 10          \* "\n" of parts.join("\n")

RawPart == <<114, 97, 119, 61, 116, 114, 117, 101>>                  \* "raw=true"
ExcludePrefix == <<101, 120, 99, 108, 117, 100, 101, 61>>            \* "exclude="
StripLinksPart == <<115, 116, 114, 105, 112, 76, 105, 110, 107, 115,
                    61, 116, 114, 117, 101>>                         \* "stripLinks=true"
EncodingPrefix == <<101, 110, 99, 111, 100, 105, 110, 103, 61>>      \* "encoding="

UrlU == <<117>>        \* "u"
UrlV == <<118>>        \* "v"
Urls == {UrlU, UrlV}

EncLatin == <<108>>    \* "l", stands for an encoding label such as "latin1"
Encodings == {<< >>, EncLatin}     \* << >>: no encoding override

SelectorChars == {Comma, 97}     \* "," and "a"

StringsUpTo(n) == UNION {[1..k -> SelectorChars] : k \in 1..n}
ListsUpTo(S, n) == UNION {[1..k -> S] : k \in 0..n}

\* ExtractionOptions (cache.ts:12-17).  raw / stripLinks FALSE also stands
\* for an undefined flag, encoding << >> for an undefined or empty one and
\* excludeSelectors << >> for an undefined or empty list: the code tests
\* all four for truthiness only.
ExtractionOptions ==
    [raw : BOOLEAN,
     excludeSelectors : ListsUpTo(StringsUpTo(MaxSelLen), MaxSelectors),
     stripLinks : BOOLEAN,
     encoding : Encodings]

NoKey == << >>       \* no key built yet (a URL is never empty)

NoExtraction == [none |-> TRUE]   \* the extraction argument left out

(***************************************************************************)
(* Array.prototype.sort() without comparator: ascending by UTF-16 code     *)
(* units, a proper prefix first.                                           *)
(***************************************************************************)
RECURSIVE StrLess(_, _)
StrLess(a, b) ==
    IF b = << >> THEN FALSE
    ELSE IF a = << >> THEN TRUE
    ELSE IF Head(a) # Head(b) THEN Head(a) < Head(b)
    ELSE StrLess(Tail(a), Tail(b))

RECURSIVE Insert(_, _)
Insert(x, sorted) ==
    IF sorted = << >> THEN <<x>>
    ELSE IF StrLess(x, Head(sorted)) THEN <<x>> \o sorted
    ELSE <<Head(sorted)>> \o Insert(x, Tail(sorted))

\* a sort that leaves the list as it was given
SortUnsorted(list) == list

RECURSIVE Sort(_)
Sort(list) ==
    IF list = << >> THEN << >>
    ELSE Insert(Head(list), Sort(Tail(list)))

\* Array.prototype.join(sep)
RECURSIVE Join(_, _)
Join(list, sep) ==
    IF list = << >> THEN << >>
    ELSE IF Len(list) = 1 THEN Head(list)
    ELSE Head(list) \o <<sep>> \o Join(Tail(list), sep)

\* the parts array of buildCachePath (cache.ts:50-63)
KeyParts(extraction) ==
    (IF extraction.raw THEN <<RawPart>> ELSE << >>)
    \o (IF Len(extraction.excludeSelectors) > 0
        THEN <<ExcludePrefix \o Join(Sort(extraction.excludeSelectors), Comma)>>
        ELSE << >>)
    \o (IF extraction.stripLinks THEN <<StripLinksPart>> ELSE << >>)
    \o (IF extraction.encoding # << >>
        THEN <<EncodingPrefix \o extraction.encoding>>
        ELSE << >>)

\* buildCachePath (cache.ts:42-71): the string the hasher is fed.  The
\* cache directory is the same for every call and is left out.
buildCachePath(url, extraction) ==
    IF extraction = NoExtraction THEN url
    ELSE LET parts == KeyParts(extraction)
         IN  IF Len(parts) > 0
             THEN url \o <<Newline>> \o Join(parts, Newline)
             ELSE url

(***************************************************************************)
(* The values an orchestrateFetch call holds before it has them.           *)
(***************************************************************************)
NoWriter == [none |-> TRUE]
NoRequest == [mode |-> "none"]
NoResult == [html |-> Absent, finalUrl |-> << >>, fromCache |-> FALSE,
             strategyUsed |-> Absent, writer |-> NoWriter]
NoFetch == [html |-> Absent, finalUrl |-> << >>, strategy |-> Absent]
NoProbe == [html |-> Absent, finalUrl |-> << >>, contentType |-> Absent,
            page |-> Absent]
NothingDone == [static |-> 0, check |-> 0, render |-> 0, detect |-> 0, write |-> 0]

RaceIdle ==
    /\ calls = NoCall
    /\ bytes = NoCall

DetectIdle ==
    /\ doc = NoCall
    /\ detection = NoCall

OneCallIdle ==
    /\ pc = "idle"
    /\ req = NoRequest
    /\ cacheEntry = NoCall
    /\ cached = NoCall
    /\ staticResult = NoProbe
    /\ fetched = NoFetch
    /\ outcome = NoResult
    /\ did = NothingDone
    /\ failure = "none"
    /\ rendered = Absent
    /\ prev = NoCall
    /\ install = NoCall
    /\ browser = NoCall

OrchIdle == OneCallIdle /\ RaceIdle /\ DetectIdle

(***************************************************************************)
(* Key derivation: two option sets for one URL and their keys.             *)
(***************************************************************************)
KeyInit ==
    /\ kUrl \in Urls
    /\ optsA \in ExtractionOptions
    /\ optsB = optsA
    /\ keyA = NoKey
    /\ keyB = NoKey
    /\ kPhase = "input"
    /\ files = << >>
    /\ now = 0
    /\ lastRead = NoCall
    /\ lastWrite = NoCall
    /\ OrchIdle

SetOf(list) == {list[i] : i \in 1..Len(list)}

BuildBoth(b, phase) ==
    /\ optsB' = b
    /\ keyA' = buildCachePath(kUrl, optsA)
    /\ keyB' = buildCachePath(kUrl, b)
    /\ kPhase' = phase
    /\ UNCHANGED <<raceVars, detectVars, kUrl, optsA, diskVars, cacheVars, orchVars, seqVars, browserVars>>

\* the second option set lists the same selectors in another order
BuildPermuted ==
    /\ kPhase = "input"
    /\ \E p \in Permutations(1..Len(optsA.excludeSelectors)) :
          BuildBoth([optsA EXCEPT !.excludeSelectors =
                        [i \in 1..Len(optsA.excludeSelectors) |->
                            optsA.excludeSelectors[p[i]]]],
                    "permuted")

\* the second option set repeats one selector of the first
BuildRepeated ==
    /\ kPhase = "input"
    /\ \E i \in 1..Len(optsA.excludeSelectors) :
          BuildBoth([optsA EXCEPT !.excludeSelectors =
                        Append(optsA.excludeSelectors, optsA.excludeSelectors[i])],
                    "repeated")

\* the second option set is any option set
BuildPaired ==
    /\ kPhase = "input"
    /\ \E b \in ExtractionOptions : BuildBoth(b, "paired")

KeyNext == BuildPermuted \/ BuildRepeated

KeySpec == KeyInit /\ [][KeyNext]_vars

KeyPairNext == BuildPaired

KeyPairSpec == KeyInit /\ [][KeyPairNext]_vars

(***************************************************************************)
(* The cache directory.  A file is what readFile and stat return for it:   *)
(* its text, as far as JSON.parse and the reader look at it, and its       *)
(* modification time.                                                      *)
(*   kind: "none"      no file under the key (readFile rejects, ENOENT)    *)
(*         "garbage"   text that JSON.parse rejects                        *)
(*         "nonobject" JSON text of the value null (a property read throws)*)
(*         "json"      a JSON object with the fields below                 *)
(*   cacheVersion 0, finalUrl NoUrl, strategy Absent: the field is missing *)
(*   writer: not part of the file; it records the raw and encoding options *)
(*   of the orchestrateFetch call that wrote the entry                     *)
(***************************************************************************)
CACHE_VERSION == 2

NoUrl == << >>

NoFile ==
    [kind |-> "none", url |-> NoUrl, finalUrl |-> NoUrl, cacheVersion |-> 0,
     strategy |-> Absent, body |-> Absent, mtime |-> 0, writer |-> NoWriter]

JsonFile(url, finalUrl, version, strategy, body, t) ==
    [kind |-> "json", url |-> url, finalUrl |-> finalUrl, cacheVersion |-> version,
     strategy |-> strategy, body |-> body, mtime |-> t, writer |-> NoWriter]

BrokenFile(kind, t) == [NoFile EXCEPT !.kind = kind, !.mtime = t]

CacheUrl == UrlU        \* the URL the cache module is called for

\* Files that something other than this writeToCache leaves in the cache
\* directory: truncated or foreign text, entries of the earlier formats
\* (no cacheVersion; without strategy and finalUrl, or with a strategy this
\* reader does not know), entries of another schema version, entries of
\* schema version 2, and entries stored for another URL.
ForeignFiles(t) ==
    {BrokenFile("garbage", t), BrokenFile("nonobject", t)}
    \cup {JsonFile(CacheUrl, NoUrl, 0, Absent, "old", t),
          JsonFile(CacheUrl, CacheUrl, 0, "markdown", "old", t),
          JsonFile(CacheUrl, CacheUrl, 1, Absent, "other", t),
          JsonFile(CacheUrl, CacheUrl, CACHE_VERSION, Absent, "other", t),
          JsonFile(UrlV, UrlV, CACHE_VERSION, Absent, "other", t)}

\* results of a read: null, a rejected promise, or the payload
ResultNull == [status |-> "null", entry |-> NoFile]
ResultThrew == [status |-> "threw", entry |-> NoFile]
\* the payload is the parsed text; the modification time is not part of it
ResultEntry(file) == [status |-> "entry", entry |-> [file EXCEPT !.mtime = 0]]

\* the extraction option sets the cache module is called with
RawExtraction ==
    [raw |-> TRUE, excludeSelectors |-> << >>, stripLinks |-> FALSE, encoding |-> << >>]
CacheExtractions == {NoExtraction, RawExtraction}
CacheKeys == {buildCachePath(CacheUrl, e) : e \in CacheExtractions}

\* a test that still takes the entry at the instant its TTL ends
IsFreshInclusive(file, ttlMs, t) == file.mtime + ttlMs >= t

\* cache.ts:101  info.mtimeMs + ttlMs > Date.now()
IsFresh(file, ttlMs, t) == file.mtime + ttlMs > t

\* the reader of the earlier format (cache.ts:190-198): no version check
VersionRejectedNever(payload) == FALSE

\* cache.ts:97  payload.cacheVersion !== 2
VersionRejected(payload) == payload.cacheVersion # CACHE_VERSION

\* the try block of readFromCache (cache.ts:89-108)
ReadAttempt(url, ttlMs, extraction, fs, t) ==
    LET target == buildCachePath(url, extraction)
        file == fs[target]
    IN  IF file.kind = "none" THEN ResultThrew              \* readFile / stat reject
        ELSE IF file.kind = "garbage" THEN ResultThrew      \* JSON.parse throws
        ELSE IF file.kind = "nonobject" THEN ResultThrew    \* payload.cacheVersion of null
        ELSE IF VersionRejected(file) THEN ResultNull
        ELSE IF ~IsFresh(file, ttlMs, t) THEN ResultNull
        ELSE IF file.url # url THEN ResultNull
        ELSE ResultEntry(file)

\* a read whose failures escape to the caller
CaughtNothing(r) == r

\* catch { return null } (cache.ts:109-111)
Caught(r) == IF r.status = "threw" THEN ResultNull ELSE r

\* readFromCache (cache.ts:73-112)
readFromCache(url, enabled, ttlMs, extraction, fs, t) ==
    IF ~enabled THEN ResultNull
    ELSE Caught(ReadAttempt(url, ttlMs, extraction, fs, t))

\* writeToCache (cache.ts:114-139): the directory after the call
writeToCache(url, markdown, finalUrl, enabled, extraction, fs, t) ==
    IF ~enabled THEN fs
    ELSE [fs EXCEPT ![buildCachePath(url, extraction)] =
              JsonFile(url, finalUrl, CACHE_VERSION, Absent, markdown, t)]

(***************************************************************************)
(* The cache module on its own: reads and writes of one URL under two      *)
(* extraction option sets, files left by other writers, and the clock.     *)
(***************************************************************************)
CacheInit ==
    /\ kUrl = CacheUrl
    /\ optsA = RawExtraction
    /\ optsB = RawExtraction
    /\ keyA = NoKey
    /\ keyB = NoKey
    /\ kPhase = "cache"
    /\ files = [k \in CacheKeys |-> NoFile]
    /\ now = 0
    /\ lastRead = NoCall
    /\ lastWrite = NoCall
    /\ OrchIdle

Tick ==
    /\ now < MaxTime
    /\ now' = now + 1
    /\ lastRead' = NoCall
    /\ UNCHANGED <<raceVars, detectVars, lastWrite, seqVars, browserVars, keyVars, files, orchVars>>

\* another writer stores a file under a key
PlaceFile ==
    /\ \E k \in DOMAIN files, f \in ForeignFiles(now) :
          files' = [files EXCEPT ![k] = f]
    /\ lastRead' = NoCall
    /\ UNCHANGED <<raceVars, detectVars, lastWrite, seqVars, browserVars, keyVars, now, orchVars>>

\* a call of readFromCache returns; lastRead holds it until the next step,
\* so the file and the clock it saw are those of the state it is in
ReadFromCache ==
    /\ \E enabled \in BOOLEAN, ttlMs \in 1..MaxTtl, e \in CacheExtractions :
          lastRead' = [op |-> "read", url |-> CacheUrl, enabled |-> enabled,
                       ttlMs |-> ttlMs, key |-> buildCachePath(CacheUrl, e),
                       result |-> readFromCache(CacheUrl, enabled, ttlMs, e, files, now)]
    /\ UNCHANGED <<raceVars, detectVars, lastWrite, seqVars, browserVars, keyVars, diskVars, orchVars>>

WriteToCache ==
    /\ \E enabled \in BOOLEAN, finalUrl \in Urls, e \in CacheExtractions :
          files' = writeToCache(CacheUrl, "markdown", finalUrl, enabled, e, files, now)
    /\ lastRead' = NoCall
    /\ UNCHANGED <<raceVars, detectVars, lastWrite, seqVars, browserVars, keyVars, now, orchVars>>

CacheNext == Tick \/ PlaceFile \/ ReadFromCache \/ WriteToCache

CacheSpec == CacheInit /\ [][CacheNext]_vars

(***************************************************************************)
(* The cache module the orchestrator was written against: entries hold     *)
(* content, finalUrl and strategy and carry no cacheVersion; the key is    *)
(* built from the URL alone.                                               *)
(***************************************************************************)
\* a reader that returns the payload as it was stored
ReadAttemptV1AsStored(url, ttlMs, fs, t) ==
    LET file == fs[buildCachePath(url, NoExtraction)]
    IN  IF file.kind # "json" THEN ResultThrew
        ELSE IF ~IsFresh(file, ttlMs, t) THEN ResultNull
        ELSE IF file.url # url THEN ResultNull
        ELSE ResultEntry(file)

\* readFromCache with the defaults for entries of the first format:
\* finalUrl = payload.finalUrl ?? payload.url, strategy = payload.strategy ?? "unknown"
ReadAttemptV1(url, ttlMs, fs, t) ==
    LET file == fs[buildCachePath(url, NoExtraction)]
    IN  IF file.kind # "json" THEN ResultThrew
        ELSE IF ~IsFresh(file, ttlMs, t) THEN ResultNull
        ELSE IF file.url # url THEN ResultNull
        ELSE ResultEntry([file EXCEPT
                 !.finalUrl = IF @ = NoUrl THEN file.url ELSE @,
                 !.strategy = IF @ = Absent THEN "unknown" ELSE @])

readFromCacheV1(url, enabled, ttlMs, fs, t) ==
    IF ~enabled THEN ResultNull
    ELSE Caught(ReadAttemptV1(url, ttlMs, fs, t))

\* a write that keeps an entry that is already there
writeToCacheV1KeepFirst(url, content, finalUrl, strategy, enabled, writer, fs, t) ==
    IF ~enabled \/ fs[buildCachePath(url, NoExtraction)].kind = "json" THEN fs
    ELSE [fs EXCEPT ![buildCachePath(url, NoExtraction)] =
              [JsonFile(url, finalUrl, 0, strategy, content, t)
                   EXCEPT !.writer = writer]]

\* a write that returns without storing anything
writeToCacheV1Nothing(url, content, finalUrl, strategy, enabled, writer, fs, t) == fs

\* writeToCache(url, content, finalUrl, strategy, options)
writeToCacheV1(url, content, finalUrl, strategy, enabled, writer, fs, t) ==
    IF ~enabled THEN fs
    ELSE [fs EXCEPT ![buildCachePath(url, NoExtraction)] =
              [JsonFile(url, finalUrl, 0, strategy, content, t)
                   EXCEPT !.writer = writer]]

(***************************************************************************)
(* That cache module on its own: writes and reads of one URL.              *)
(***************************************************************************)
Strategies == {"static", "headless"}
Contents == {"static html (utf-8)", "rendered html"}

CacheV1Init ==
    /\ kUrl = CacheUrl
    /\ optsA = RawExtraction
    /\ optsB = RawExtraction
    /\ keyA = NoKey
    /\ keyB = NoKey
    /\ kPhase = "cacheV1"
    /\ files = [k \in {buildCachePath(CacheUrl, NoExtraction)} |-> NoFile]
    /\ now = 0
    /\ lastRead = NoCall
    /\ lastWrite = NoCall
    /\ OrchIdle

\* a call of writeToCache returns; lastWrite holds its arguments, the time
\* of the write and how many writes there were
WriteToCacheV1 ==
    /\ IF lastWrite = NoCall THEN TRUE ELSE lastWrite.count < MaxWrites
    /\ \E enabled \in BOOLEAN, content \in Contents, finalUrl \in Urls,
          strategy \in Strategies :
          /\ files' = writeToCacheV1(CacheUrl, content, finalUrl, strategy, enabled,
                                     NoWriter, files, now)
          /\ lastWrite' =
                IF ~enabled THEN lastWrite
                ELSE [op |-> "write", content |-> content, finalUrl |-> finalUrl,
                      strategy |-> strategy, at |-> now,
                      count |-> IF lastWrite = NoCall THEN 1 ELSE lastWrite.count + 1]
    /\ lastRead' = NoCall
    /\ UNCHANGED <<raceVars, detectVars, seqVars, browserVars, keyVars, now, orchVars>>

\* a call of readFromCache returns
ReadFromCacheV1 ==
    /\ \E enabled \in BOOLEAN, ttlMs \in 1..MaxTtl :
          lastRead' = [op |-> "read", url |-> CacheUrl, enabled |-> enabled,
                       ttlMs |-> ttlMs, key |-> buildCachePath(CacheUrl, NoExtraction),
                       result |-> readFromCacheV1(CacheUrl, enabled, ttlMs, files, now)]
    /\ UNCHANGED <<raceVars, detectVars, lastWrite, seqVars, browserVars, keyVars, diskVars, orchVars>>

\* an entry of the first format, { url, fetchedAt, content }, as an earlier
\* release left it (cache.test.ts:19-31)
OldEntry(url, t) == JsonFile(url, NoUrl, 0, Absent, "old content", t)

PlaceOldEntry ==
    /\ files' = [files EXCEPT ![buildCachePath(CacheUrl, NoExtraction)] =
                     OldEntry(CacheUrl, now)]
    /\ lastRead' = NoCall
    /\ lastWrite' = NoCall
    /\ UNCHANGED <<raceVars, detectVars, seqVars, browserVars, keyVars, now, orchVars>>

CacheV1Next == Tick \/ WriteToCacheV1 \/ ReadFromCacheV1 \/ PlaceOldEntry

CacheV1Spec == CacheV1Init /\ [][CacheV1Next]_vars

(***************************************************************************)
(* The fetch orchestrator (src/fetcher.ts).                                *)
(***************************************************************************)
OrchUrl == CacheUrl
Modes == {"auto", "static", "headless"}

Requests ==
    [url : {OrchUrl}, mode : Modes, noCache : BOOLEAN, raw : BOOLEAN,
     encoding : Encodings, ttlMs : {MaxTtl}]

\* what a server can answer to the static request
ContentTypes == {Absent, "text/html; charset=utf-8", "application/xhtml+xml",
                 "application/pdf"}
\* "shell": markup with the signs Stage 1 looks for; "boilerplate": markup
\* that passes Stage 1 and whose extracted content Stage 2 finds too
\* sparse; "article": markup that passes both
Pages == {"shell", "boilerplate", "article"}

\* new TextDecoder(options.encoding).decode(buffer): the text depends on
\* the encoding override
DecodedHtml(encoding) ==
    IF encoding = << >> THEN "static html (utf-8)" ELSE "static html (override)"
RenderedHtml == "rendered html"

\* a test that takes every declared content type for markup
IsHtmlContentTypeAlways(contentType) == TRUE

\* HTML_CONTENT_TYPE_RE.test(contentType)
IsHtmlContentType(contentType) ==
    contentType \in {"text/html; charset=utf-8", "application/xhtml+xml"}

\* detectNeedForBrowser(rawHtml, extractedHtml, {raw, stage}): shouldFallback
detectNeedForBrowser(page, hasExtracted, raw, stage) ==
    IF stage # "stage2" /\ page = "shell" THEN TRUE
    ELSE IF stage # "stage1" /\ ~raw /\ hasExtracted /\ page = "boilerplate" THEN TRUE
    ELSE FALSE

\* a cache check that takes an entry of either strategy in every mode
canUseCacheAlways(mode, rawCachedStrategy) == TRUE

\* canUseCache of tryGetFromCache
canUseCache(mode, rawCachedStrategy) ==
    \/ mode = "auto"
    \/ (mode = "static" /\ rawCachedStrategy = "static")
    \/ (mode = "headless" /\ rawCachedStrategy = "headless")

Miss == [hit |-> FALSE, result |-> NoResult]
Hit(result) == [hit |-> TRUE, result |-> result]

\* tryGetFromCache, given what readFromCache returned
tryGetFromCache(r, c) ==
    IF r.noCache THEN Miss
    ELSE IF c.status # "entry" THEN Miss
    ELSE IF c.entry.strategy = "unknown" THEN Miss
    ELSE IF canUseCache(r.mode, c.entry.strategy)
         THEN Hit([html |-> c.entry.body,
                   finalUrl |-> IF c.entry.finalUrl = NoUrl THEN r.url
                                ELSE c.entry.finalUrl,
                   fromCache |-> TRUE,
                   strategyUsed |-> c.entry.strategy,
                   writer |-> c.entry.writer])
         ELSE Miss

\* an orchestrator that fetches again whatever the cache gave
ReturnsCachedNever(c) == FALSE

\* orchestrateFetch: if (cached) return cached
ReturnsCached(c) == c.hit

\* a dispatch that sends every mode through auto-detection
fetchWithModeAuto(mode) == "probe"

\* fetchWithMode: the first step of the mode
fetchWithMode(mode) ==
    IF mode = "static" THEN "http"
    ELSE IF mode = "headless" THEN "ensure"
    ELSE "probe"

Count(what) == [did EXCEPT ![what] = @ + 1]

OrchInit ==
    /\ kUrl = OrchUrl
    /\ optsA = RawExtraction
    /\ optsB = RawExtraction
    /\ keyA = NoKey
    /\ keyB = NoKey
    /\ kPhase = "fetch"
    /\ files = [k \in {buildCachePath(OrchUrl, NoExtraction)} |-> NoFile]
    /\ now = 0
    /\ lastRead = NoCall
    /\ lastWrite = NoCall
    /\ OrchIdle

\* fetchPage / orchestrateFetch is called
Start ==
    /\ pc = "idle"
    /\ \E r \in Requests : req' = r
    /\ pc' = "cacheCheck"
    /\ UNCHANGED <<raceVars, detectVars, failure, rendered, seqVars, browserVars, keyVars, diskVars, cacheVars, cacheEntry, cached, staticResult,
                   fetched, outcome, did>>

\* const cached = await tryGetFromCache(url, mode, options); if (cached) return
TryGetFromCache ==
    /\ pc = "cacheCheck"
    /\ LET c == IF req.noCache THEN NoCall
                ELSE [op |-> "read"] @@
                     readFromCacheV1(req.url, ~req.noCache, req.ttlMs, files, now)
           got == tryGetFromCache(req, c)
       IN  /\ cacheEntry' = c
           /\ cached' = got
           /\ IF ReturnsCached(got)
              THEN /\ outcome' = got.result
                   /\ pc' = "done"
              ELSE /\ outcome' = outcome
                   /\ pc' = fetchWithMode(req.mode)
    /\ UNCHANGED <<raceVars, detectVars, failure, rendered, seqVars, browserVars, keyVars, diskVars, cacheVars, req, staticResult, fetched, did>>

\* mode static: fetchWithHttp resolves
StaticFetch ==
    /\ pc = "http"
    /\ \E finalUrl \in Urls, ct \in ContentTypes, page \in Pages :
          /\ staticResult' = [html |-> DecodedHtml(req.encoding),
                              finalUrl |-> finalUrl, contentType |-> ct,
                              page |-> page]
          /\ fetched' = [html |-> DecodedHtml(req.encoding), finalUrl |-> finalUrl,
                         strategy |-> "static"]
    /\ did' = Count("static")
    /\ pc' = "write"
    /\ UNCHANGED <<raceVars, detectVars, failure, rendered, seqVars, browserVars, keyVars, diskVars, cacheVars, req, cacheEntry, cached, outcome>>

\* fetchWithHttp rejects (status not ok, network error, timeout)
StaticFetchFails ==
    /\ pc \in {"http", "probe"}
    /\ did' = Count("static")
    /\ pc' = "failed"
    /\ failure' = "static"
    /\ UNCHANGED <<raceVars, detectVars, rendered, seqVars, browserVars, keyVars, diskVars, cacheVars, req, cacheEntry, cached,
                   staticResult, fetched, outcome>>

\* mode auto: the static probe of fetchWithAutoDetect resolves
StaticProbe ==
    /\ pc = "probe"
    /\ \E finalUrl \in Urls, ct \in ContentTypes, page \in Pages :
          staticResult' = [html |-> DecodedHtml(req.encoding), finalUrl |-> finalUrl,
                           contentType |-> ct, page |-> page]
    /\ did' = Count("static")
    /\ pc' = "probed"
    /\ UNCHANGED <<raceVars, detectVars, failure, rendered, seqVars, browserVars, keyVars, diskVars, cacheVars, req, cacheEntry, cached,
                   fetched, outcome>>

StaticFinal ==
    [html |-> staticResult.html, finalUrl |-> staticResult.finalUrl,
     strategy |-> "static"]

\* a shortcut that is also taken when no content type was declared
IsDeclaredNonHtmlOrAbsent(contentType) == ~IsHtmlContentType(contentType)

\* staticResult.contentType && !HTML_CONTENT_TYPE_RE.test(staticResult.contentType)
IsDeclaredNonHtml(contentType) ==
    contentType # Absent /\ ~IsHtmlContentType(contentType)

\* fetchWithAutoDetect from the content-type test to its next await
AutoDetect ==
    /\ pc = "probed"
    /\ IF IsDeclaredNonHtml(staticResult.contentType)
       THEN /\ fetched' = StaticFinal
            /\ did' = did
            /\ pc' = "write"
       ELSE IF detectNeedForBrowser(staticResult.page, FALSE, req.raw, "stage1")
       THEN /\ fetched' = fetched
            /\ did' = Count("detect")
            /\ pc' = "ensure"
       ELSE IF detectNeedForBrowser(staticResult.page, TRUE, req.raw, "stage2")
       THEN /\ fetched' = fetched
            /\ did' = [did EXCEPT !.detect = @ + 2]
            /\ pc' = "ensure"
       ELSE /\ fetched' = StaticFinal
            /\ did' = [did EXCEPT !.detect = @ + 2]
            /\ pc' = "write"
    /\ UNCHANGED <<raceVars, detectVars, failure, rendered, seqVars, browserVars, keyVars, diskVars, cacheVars, req, cacheEntry, cached,
                   staticResult, outcome>>

\* ensureBrowserInstalled resolves
EnsureBrowser ==
    /\ pc = "ensure"
    /\ did' = Count("check")
    /\ pc' = "render"
    /\ UNCHANGED <<raceVars, detectVars, failure, rendered, seqVars, browserVars, keyVars, diskVars, cacheVars, req, cacheEntry, cached,
                   staticResult, fetched, outcome>>

\* ensureBrowserInstalled rejects
EnsureBrowserFails ==
    /\ pc = "ensure"
    /\ did' = Count("check")
    /\ pc' = "failed"
    /\ failure' = "check"
    /\ UNCHANGED <<raceVars, detectVars, rendered, seqVars, browserVars, keyVars, diskVars, cacheVars, req, cacheEntry, cached,
                   staticResult, fetched, outcome>>

\* a render fallback that runs Stage 1 again on the rendered markup and
\* renders once more when it is still flagged
RenderFetchRechecked ==
    /\ pc = "render"
    /\ \E finalUrl \in Urls, page \in Pages :
          /\ fetched' = [html |-> RenderedHtml, finalUrl |-> finalUrl,
                         strategy |-> "headless"]
          /\ rendered' = page
          /\ IF req.mode = "auto"
                /\ detectNeedForBrowser(page, FALSE, req.raw, "stage1")
             THEN /\ pc' = "ensure"
                  /\ did' = [did EXCEPT !.render = @ + 1, !.detect = @ + 1]
             ELSE /\ pc' = "write"
                  /\ did' = Count("render")
    /\ UNCHANGED <<raceVars, detectVars, failure, seqVars, browserVars, keyVars, diskVars, cacheVars, req,
                   cacheEntry, cached, staticResult, outcome>>

\* fetchWithBrowser resolves
RenderFetch ==
    /\ pc = "render"
    /\ \E finalUrl \in Urls, page \in Pages :
          /\ fetched' = [html |-> RenderedHtml, finalUrl |-> finalUrl,
                         strategy |-> "headless"]
          /\ rendered' = page
    /\ did' = Count("render")
    /\ pc' = "write"
    /\ UNCHANGED <<raceVars, detectVars, failure, seqVars, browserVars, keyVars, diskVars, cacheVars, req, cacheEntry, cached,
                   staticResult, outcome>>

\* a failed render answered by a static fetch
RenderFetchFallsBack ==
    /\ pc = "render"
    /\ did' = Count("render")
    /\ pc' = "http"
    /\ failure' = "render"
    /\ UNCHANGED <<raceVars, detectVars, rendered, seqVars, browserVars, keyVars, diskVars, cacheVars, req,
                   cacheEntry, cached, staticResult, fetched, outcome>>

\* a failing render fetch that stores the static probe before it rejects
RenderFetchFailsCachingProbe ==
    /\ pc = "render"
    /\ files' = IF staticResult = NoProbe \/ req.noCache THEN files
                ELSE writeToCacheV1(req.url, staticResult.html, staticResult.finalUrl,
                                    "static", TRUE,
                                    [raw |-> req.raw, encoding |-> req.encoding],
                                    files, now)
    /\ did' = Count("render")
    /\ pc' = "failed"
    /\ failure' = "render"
    /\ UNCHANGED <<raceVars, detectVars, rendered, seqVars, browserVars, keyVars, now,
                   cacheVars, req, cacheEntry, cached, staticResult, fetched, outcome>>

\* fetchWithBrowser rejects
RenderFetchFails ==
    /\ pc = "render"
    /\ did' = Count("render")
    /\ pc' = "failed"
    /\ failure' = "render"
    /\ UNCHANGED <<raceVars, detectVars, rendered, seqVars, browserVars, keyVars, diskVars, cacheVars, req, cacheEntry, cached,
                   staticResult, fetched, outcome>>

\* a write that stores the markup of the static probe when there is one
WriteProbeAndReturn ==
    /\ pc = "write"
    /\ IF ~req.noCache
       THEN /\ files' = writeToCacheV1(req.url,
                                       IF staticResult # NoProbe
                                       THEN staticResult.html ELSE fetched.html,
                                       fetched.finalUrl,
                                       fetched.strategy, ~req.noCache,
                                       [raw |-> req.raw, encoding |-> req.encoding],
                                       files, now)
            /\ did' = Count("write")
       ELSE /\ files' = files
            /\ did' = did
    /\ outcome' = [html |-> fetched.html, finalUrl |-> fetched.finalUrl,
                   fromCache |-> FALSE, strategyUsed |-> fetched.strategy,
                   writer |-> NoWriter]
    /\ pc' = "done"
    /\ UNCHANGED <<raceVars, detectVars, failure, rendered, seqVars, browserVars, keyVars, now, cacheVars,
                   req, cacheEntry, cached, staticResult, fetched>>

\* if (!options.noCache) await writeToCache(...); return {...}
WriteAndReturn ==
    /\ pc = "write"
    /\ IF ~req.noCache
       THEN /\ files' = writeToCacheV1(req.url, fetched.html, fetched.finalUrl,
                                       fetched.strategy, ~req.noCache,
                                       [raw |-> req.raw, encoding |-> req.encoding],
                                       files, now)
            /\ did' = Count("write")
       ELSE /\ files' = files
            /\ did' = did
    /\ outcome' = [html |-> fetched.html, finalUrl |-> fetched.finalUrl,
                   fromCache |-> FALSE, strategyUsed |-> fetched.strategy,
                   writer |-> NoWriter]
    /\ pc' = "done"
    /\ UNCHANGED <<raceVars, detectVars, failure, rendered, seqVars, browserVars, keyVars, now, cacheVars, req, cacheEntry, cached, staticResult,
                   fetched>>

\* writeToCache rejects (mkdir or writeFile fails): the call fails, and the
\* file is as it was or holds text cut short
WriteFails ==
    /\ pc = "write"
    /\ ~req.noCache
    /\ \/ files' = files
       \/ files' = [files EXCEPT ![buildCachePath(req.url, NoExtraction)] =
                        BrokenFile("garbage", now)]
    /\ pc' = "failed"
    /\ failure' = "write"
    /\ UNCHANGED <<raceVars, detectVars, rendered, seqVars, browserVars, keyVars, now, cacheVars, req, cacheEntry, cached, staticResult,
                   fetched, outcome, did>>

\* the caller has the result (or the error); the next call can start
Finish ==
    /\ pc \in {"done", "failed"}
    /\ pc' = "idle"
    /\ req' = NoRequest
    /\ cacheEntry' = NoCall
    /\ cached' = NoCall
    /\ staticResult' = NoProbe
    /\ fetched' = NoFetch
    /\ outcome' = NoResult
    /\ did' = NothingDone
    /\ failure' = "none"
    /\ rendered' = Absent
    /\ UNCHANGED <<raceVars, detectVars, seqVars, browserVars, keyVars, diskVars, cacheVars>>

Next ==
    \/ Tick
    \/ PlaceFile
    \/ Start
    \/ TryGetFromCache
    \/ StaticFetch
    \/ StaticFetchFails
    \/ StaticProbe
    \/ AutoDetect
    \/ EnsureBrowser
    \/ EnsureBrowserFails
    \/ RenderFetch
    \/ RenderFetchFails
    \/ WriteAndReturn
    \/ WriteFails
    \/ Finish

Spec == OrchInit /\ [][Next]_vars

(***************************************************************************)
(* Two calls of fetchPage in sequence with the same arguments, starting    *)
(* from an empty cache directory that nothing else writes to.              *)
(***************************************************************************)
\* the first call
StartFirst ==
    /\ pc = "idle"
    /\ prev = NoCall
    /\ \E r \in Requests : req' = r
    /\ pc' = "cacheCheck"
    /\ UNCHANGED <<raceVars, detectVars, failure, rendered, seqVars, browserVars, keyVars, diskVars,
                   cacheVars, cacheEntry, cached, staticResult, fetched, outcome, did>>

\* the first call has returned or failed: the caller keeps what it got
Remember ==
    /\ pc \in {"done", "failed"}
    /\ prev = NoCall
    /\ prev' = [op |-> "fetchPage", req |-> req, ok |-> (pc = "done"),
                outcome |-> outcome]
    /\ pc' = "idle"
    /\ req' = NoRequest
    /\ cacheEntry' = NoCall
    /\ cached' = NoCall
    /\ staticResult' = NoProbe
    /\ fetched' = NoFetch
    /\ outcome' = NoResult
    /\ did' = NothingDone
    /\ failure' = "none"
    /\ rendered' = Absent
    /\ UNCHANGED <<raceVars, detectVars, browserVars, keyVars, diskVars, cacheVars>>

\* the second call, with the arguments of the first
StartSecond ==
    /\ pc = "idle"
    /\ prev # NoCall
    /\ req' = prev.req
    /\ pc' = "cacheCheck"
    /\ UNCHANGED <<raceVars, detectVars, failure, rendered, seqVars, browserVars, keyVars, diskVars,
                   cacheVars, cacheEntry, cached, staticResult, fetched, outcome, did>>

TwiceNext ==
    \/ Tick
    \/ StartFirst
    \/ Remember
    \/ StartSecond
    \/ TryGetFromCache
    \/ StaticFetch
    \/ StaticFetchFails
    \/ StaticProbe
    \/ AutoDetect
    \/ EnsureBrowser
    \/ EnsureBrowserFails
    \/ RenderFetch
    \/ RenderFetchFails
    \/ WriteAndReturn
    \/ WriteFails

TwiceSpec == OrchInit /\ [][TwiceNext]_vars

(***************************************************************************)
(* ensureBrowserInstalled (src/fetcher.ts), one call, step by step.        *)
(*   env.importable  import("playwright") resolves                         *)
(*   env.launches    chromium.launch and browser.close resolve             *)
(*   env.isTTY       process.stdin.isTTY                                   *)
(*   env.ci          process.env.CI: Absent, the empty string or a value   *)
(*   env.installs    import("bun") and the install command resolve         *)
(* The messages are written without the backquotes of the source.          *)
(* The operator's answer is chosen when it is given; until then the call   *)
(* waits in rl.question.                                                   *)
(***************************************************************************)
InstallEnvs ==
    [importable : BOOLEAN, launches : BOOLEAN, isTTY : BOOLEAN,
     ci : {Absent, "", "true"}, installs : BOOLEAN]

Answers == {"y", "Y", "n", "yes", ""}

NotInstalledError == "JS mode requested but playwright is not installed"
InstallInstruction == "Browser binaries not found. Run bunx playwright install chromium"
InstallCommandError == "ShellError"

\* String.prototype.toLowerCase on the answers
ToLowerCase(answer) ==
    IF answer = "Y" THEN "y" ELSE answer

\* truthiness of process.env.CI
Truthy(value) == value \notin {Absent, ""}

\* a check that prompts whenever stdin is a terminal
CanPromptOnTty(env) == env.isTTY

\* process.stdin.isTTY && !process.env.CI
CanPrompt(env) == env.isTTY /\ ~Truthy(env.ci)

\* answer.toLowerCase() === "y"
Confirms(answer) == ToLowerCase(answer) = "y"

EnsureFailed(message) ==
    [install EXCEPT !.pc = "failed", !.error = message]

\* ensureBrowserInstalled is called
EnsureStart ==
    /\ install = NoCall
    /\ \E env \in InstallEnvs :
          install' = [op |-> "ensureBrowserInstalled", pc |-> "import", env |-> env,
                      prompted |-> FALSE, answer |-> Absent, error |-> Absent]
    /\ UNCHANGED <<raceVars, detectVars, browser, seqVars, keyVars, diskVars, cacheVars, orchVars>>

\* pw = await import("playwright")
EnsureImport ==
    /\ install # NoCall
    /\ install.pc = "import"
    /\ install' = IF install.env.importable
                  THEN [install EXCEPT !.pc = "launch"]
                  ELSE EnsureFailed(NotInstalledError)
    /\ UNCHANGED <<raceVars, detectVars, browser, seqVars, keyVars, diskVars, cacheVars, orchVars>>

\* the trial launch and, when it fails, the choice between prompt and error
EnsureLaunch ==
    /\ install # NoCall
    /\ install.pc = "launch"
    /\ install' = IF install.env.launches
                  THEN [install EXCEPT !.pc = "ok"]
                  ELSE IF CanPrompt(install.env)
                  THEN [install EXCEPT !.pc = "prompt", !.prompted = TRUE]
                  ELSE EnsureFailed(InstallInstruction)
    /\ UNCHANGED <<raceVars, detectVars, browser, seqVars, keyVars, diskVars, cacheVars, orchVars>>

\* the operator answers the question
EnsureAnswer ==
    /\ install # NoCall
    /\ install.pc = "prompt"
    /\ \E answer \in Answers :
          install' = IF Confirms(answer)
                     THEN [install EXCEPT !.pc = "install", !.answer = answer]
                     ELSE [EnsureFailed(InstallInstruction) EXCEPT !.answer = answer]
    /\ UNCHANGED <<raceVars, detectVars, browser, seqVars, keyVars, diskVars, cacheVars, orchVars>>

\* await the install command; return
EnsureInstall ==
    /\ install # NoCall
    /\ install.pc = "install"
    /\ install' = IF install.env.installs
                  THEN [install EXCEPT !.pc = "ok"]
                  ELSE EnsureFailed(InstallCommandError)
    /\ UNCHANGED <<raceVars, detectVars, browser, seqVars, keyVars, diskVars, cacheVars, orchVars>>

EnsureNext ==
    \/ EnsureStart
    \/ EnsureImport
    \/ EnsureLaunch
    \/ EnsureAnswer
    \/ EnsureInstall

EnsureSpec == OrchInit /\ [][EnsureNext]_vars

(***************************************************************************)
(* fetchWithBrowser (src/fetcher.ts), one call, step by step.  Times are   *)
(* milliseconds.  An optional number is << >> when it is not there and     *)
(* <<n>> when it is n; for the page, << >> is an event that never comes.   *)
(*   page.loadAfter  time from goto to the load event                      *)
(*   page.idleAfter  time from the load event to network idle              *)
(*   page.finalUrl   page.url() after redirects                            *)
(***************************************************************************)
DEFAULT_TIMEOUT_MS == 30000
MIN_NETWORKIDLE_TIMEOUT_MS == 5000

TimeoutOptions == {<< >>, <<4000>>, <<10001>>, <<20000>>}

BrowserPages ==
    [importable : BOOLEAN, launches : BOOLEAN,
     timeoutMs : TimeoutOptions,
     loadAfter : {<<1000>>, <<25000>>, << >>},
     idleAfter : {<<0>>, <<5000>>, <<5001>>, <<12000>>, << >>},
     finalUrl : Urls]

HtmlAfterLoad == "html after load"
HtmlAtIdle == "html at network idle"

Max(a, b) == IF a >= b THEN a ELSE b

\* options.timeoutMs ?? DEFAULT_TIMEOUT_MS
TimeoutOf(timeoutMs) ==
    IF timeoutMs = << >> THEN DEFAULT_TIMEOUT_MS ELSE timeoutMs[1]

\* Math.max(5000, Math.floor((options.timeoutMs ?? DEFAULT_TIMEOUT_MS) / 2))
networkidleTimeout(timeoutMs) ==
    Max(MIN_NETWORKIDLE_TIMEOUT_MS, TimeoutOf(timeoutMs) \div 2)

\* the event comes within the timeout of the wait
Within(after, timeout) == after # << >> /\ after[1] <= timeout

\* fetchWithBrowser is called
RenderStart ==
    /\ browser = NoCall
    /\ \E page \in BrowserPages :
          browser' = [op |-> "fetchWithBrowser", pc |-> "import", page |-> page,
                      open |-> FALSE, idleTimeout |-> << >>, idle |-> Absent,
                      html |-> Absent, finalUrl |-> NoUrl, error |-> Absent]
    /\ UNCHANGED <<raceVars, detectVars, install, seqVars, keyVars, diskVars, cacheVars, orchVars>>

\* playwright = await import("playwright")
RenderImport ==
    /\ browser # NoCall
    /\ browser.pc = "import"
    /\ browser' = IF browser.page.importable
                  THEN [browser EXCEPT !.pc = "launch"]
                  ELSE [browser EXCEPT !.pc = "failed", !.error = "import"]
    /\ UNCHANGED <<raceVars, detectVars, install, seqVars, keyVars, diskVars, cacheVars, orchVars>>

\* chromium.launch, newContext, addCookies, newPage
RenderLaunch ==
    /\ browser # NoCall
    /\ browser.pc = "launch"
    /\ browser' = IF browser.page.launches
                  THEN [browser EXCEPT !.pc = "goto", !.open = TRUE]
                  ELSE [browser EXCEPT !.pc = "failed", !.error = "launch"]
    /\ UNCHANGED <<raceVars, detectVars, install, seqVars, keyVars, diskVars, cacheVars, orchVars>>

\* await page.goto(url, {timeout, waitUntil: "load"}), then the timeout of
\* the next wait is computed
RenderGoto ==
    /\ browser # NoCall
    /\ browser.pc = "goto"
    /\ browser' = IF Within(browser.page.loadAfter, TimeoutOf(browser.page.timeoutMs))
                  THEN [browser EXCEPT !.pc = "networkidle",
                            !.idleTimeout = <<networkidleTimeout(browser.page.timeoutMs)>>]
                  ELSE [browser EXCEPT !.pc = "failed", !.error = "goto"]
    /\ UNCHANGED <<raceVars, detectVars, install, seqVars, keyVars, diskVars, cacheVars, orchVars>>

\* a wait whose timeout rejects the call
RenderWaitIdleUncaught ==
    /\ browser # NoCall
    /\ browser.pc = "networkidle"
    /\ browser' = IF Within(browser.page.idleAfter, browser.idleTimeout[1])
                  THEN [browser EXCEPT !.pc = "content", !.idle = "reached"]
                  ELSE [browser EXCEPT !.pc = "failed", !.idle = "timeout",
                            !.error = "networkidle"]
    /\ UNCHANGED <<raceVars, detectVars, install, seqVars, keyVars, diskVars, cacheVars, orchVars>>

\* try { await page.waitForLoadState("networkidle", {timeout}) } catch {}
RenderWaitIdle ==
    /\ browser # NoCall
    /\ browser.pc = "networkidle"
    /\ browser' = IF Within(browser.page.idleAfter, browser.idleTimeout[1])
                  THEN [browser EXCEPT !.pc = "content", !.idle = "reached"]
                  ELSE [browser EXCEPT !.pc = "content", !.idle = "timeout"]
    /\ UNCHANGED <<raceVars, detectVars, install, seqVars, keyVars, diskVars, cacheVars, orchVars>>

\* html = await page.content(); finalUrl = page.url()
RenderContent ==
    /\ browser # NoCall
    /\ browser.pc = "content"
    /\ browser' = [browser EXCEPT !.pc = "close",
                       !.html = IF browser.idle = "reached" THEN HtmlAtIdle
                                ELSE HtmlAfterLoad,
                       !.finalUrl = browser.page.finalUrl]
    /\ UNCHANGED <<raceVars, detectVars, install, seqVars, keyVars, diskVars, cacheVars, orchVars>>

\* await browser.close(); return {finalUrl, fromCache: false, html, ...}
RenderClose ==
    /\ browser # NoCall
    /\ browser.pc = "close"
    /\ browser' = [browser EXCEPT !.pc = "ok", !.open = FALSE]
    /\ UNCHANGED <<raceVars, detectVars, install, seqVars, keyVars, diskVars, cacheVars, orchVars>>

RenderNext ==
    \/ RenderStart
    \/ RenderImport
    \/ RenderLaunch
    \/ RenderGoto
    \/ RenderWaitIdle
    \/ RenderContent
    \/ RenderClose

RenderSpec == OrchInit /\ [][RenderNext]_vars

(***************************************************************************)
(* Two orchestrateFetch calls for one URL, mode and options at the same    *)
(* time, the cache enabled.  writeFile(target, text) opens the file with   *)
(* flag "w", which truncates it, and then writes the text from offset 0;   *)
(* the two system calls of one writer are separate steps, and nothing      *)
(* keeps the steps of two writers apart.  The text of an entry is a        *)
(* sequence of blocks <<writer, i>>; its length follows the html.          *)
(***************************************************************************)
Procs == {1, 2}

\* the html a fetch can give, and the blocks the entry holding it takes
RaceHtmls == {"short html", "long html"}
Blocks(html) == IF html = "short html" THEN 1 ELSE MaxBlocks

Text(w, html) == [i \in 1..Blocks(html) |-> <<w, i>>]

\* write(fd, text) at offset 0 of a file that holds old
Overwrite(old, text) ==
    IF Len(old) <= Len(text) THEN text
    ELSE text \o SubSeq(old, Len(text) + 1, Len(old))

RaceKey == buildCachePath(OrchUrl, NoExtraction)

\* the shared file as readFile, JSON.parse and stat give it to a reader
RacedFile ==
    IF ~bytes.exists THEN NoFile
    ELSE IF \E p \in Procs : /\ calls[p].fetched # NoFetch
                             /\ bytes.text = Text(p, calls[p].fetched.html)
         THEN LET p == CHOOSE q \in Procs :
                           /\ calls[q].fetched # NoFetch
                           /\ bytes.text = Text(q, calls[q].fetched.html)
              IN  JsonFile(OrchUrl, calls[p].fetched.finalUrl, 0,
                           calls[p].fetched.strategy, calls[p].fetched.html,
                           bytes.mtime)
         ELSE BrokenFile("garbage", bytes.mtime)

RaceInit ==
    /\ kUrl = CacheUrl
    /\ optsA = RawExtraction
    /\ optsB = RawExtraction
    /\ keyA = NoKey
    /\ keyB = NoKey
    /\ kPhase = "race"
    /\ files = [k \in {RaceKey} |-> NoFile]
    /\ now = 0
    /\ lastRead = NoCall
    /\ lastWrite = NoCall
    /\ OneCallIdle
    /\ DetectIdle
    /\ \E m \in Modes :
          calls = [p \in Procs |->
                     [pc |-> "start",
                      req |-> [url |-> OrchUrl, mode |-> m, noCache |-> FALSE],
                      fetched |-> NoFetch, result |-> NoResult]]
    /\ bytes = [exists |-> FALSE, text |-> << >>, mtime |-> 0, lastWriter |-> 0]

RaceUnchanged ==
    UNCHANGED <<detectVars, keyVars, diskVars, cacheVars, orchVars, seqVars,
                browserVars>>

\* const cached = await tryGetFromCache(url, mode, options)
RaceTryGetFromCache(p) ==
    /\ calls[p].pc = "start"
    /\ LET c == readFromCacheV1(OrchUrl, TRUE, MaxTtl,
                                [k \in {RaceKey} |-> RacedFile], now)
           t == tryGetFromCache(calls[p].req, c)
       IN  calls' = [calls EXCEPT ![p] =
                        IF ReturnsCached(t)
                        THEN [@ EXCEPT !.pc = "returned", !.result = t.result]
                        ELSE [@ EXCEPT !.pc = "fetch"]]
    /\ UNCHANGED bytes
    /\ RaceUnchanged

\* await fetchWithMode(url, mode, options)
RaceFetch(p) ==
    /\ calls[p].pc = "fetch"
    /\ \E h \in RaceHtmls, f \in Urls, st \in Strategies :
          /\ calls[p].req.mode = "static" => st = "static"
          /\ calls[p].req.mode = "headless" => st = "headless"
          /\ calls' = [calls EXCEPT ![p] =
                          [@ EXCEPT !.pc = "open",
                                    !.fetched = [html |-> h, finalUrl |-> f,
                                                 strategy |-> st]]]
    /\ UNCHANGED bytes
    /\ RaceUnchanged

\* writeFile: open(target, "w")
RaceOpen(p) ==
    /\ calls[p].pc = "open"
    /\ calls' = [calls EXCEPT ![p].pc = "write"]
    /\ bytes' = [bytes EXCEPT !.exists = TRUE, !.text = << >>, !.mtime = now]
    /\ RaceUnchanged

\* writeFile: write(fd, JSON.stringify(payload))
RaceWrite(p) ==
    /\ calls[p].pc = "write"
    /\ calls' = [calls EXCEPT ![p].pc = "written"]
    /\ bytes' = [bytes EXCEPT
                    !.text = Overwrite(@, Text(p, calls[p].fetched.html)),
                    !.mtime = now, !.lastWriter = p]
    /\ RaceUnchanged

\* return { html, finalUrl, fromCache: false, strategyUsed: strategy }
RaceReturn(p) ==
    /\ calls[p].pc = "written"
    /\ calls' = [calls EXCEPT ![p] =
                    [@ EXCEPT !.pc = "returned",
                              !.result = [html |-> calls[p].fetched.html,
                                          finalUrl |-> calls[p].fetched.finalUrl,
                                          fromCache |-> FALSE,
                                          strategyUsed |-> calls[p].fetched.strategy,
                                          writer |-> NoWriter]]]
    /\ UNCHANGED bytes
    /\ RaceUnchanged

RaceNext ==
    \E p \in Procs :
        \/ RaceTryGetFromCache(p)
        \/ RaceFetch(p)
        \/ RaceOpen(p)
        \/ RaceWrite(p)
        \/ RaceReturn(p)

RaceSpec == RaceInit /\ [][RaceNext]_vars

(***************************************************************************)
(* One readFromCache call of src/cache.ts while writeToCache calls store    *)
(* entries under the same key.  readFile and stat are started together     *)
(* (Promise.all) and complete in either order, each at the file as it is    *)
(* at that moment; the freshness test reads the clock when both have         *)
(* completed.  Entry w is the one the w-th writeToCache call stores;        *)
(* bytes.log[w] holds its html and the time its text was written, and      *)
(* calls.mtimeOf the call whose modification time stat returned.           *)
(***************************************************************************)
NoText == <<"none">>

ReadRaceInit ==
    /\ kUrl = CacheUrl
    /\ optsA = RawExtraction
    /\ optsB = RawExtraction
    /\ keyA = NoKey
    /\ keyB = NoKey
    /\ kPhase = "readRace"
    /\ files = [k \in {RaceKey} |-> NoFile]
    /\ now = 0
    /\ lastRead = NoCall
    /\ lastWrite = NoCall
    /\ OneCallIdle
    /\ DetectIdle
    /\ calls = [pc |-> "idle", ttlMs |-> 0, file |-> NoText, mtimeMs |-> << >>,
                mtimeOf |-> 0, status |-> "none", entry |-> 0, checkedAt |-> 0]
    /\ bytes = [exists |-> FALSE, text |-> << >>, mtime |-> 0, open |-> FALSE,
                log |-> << >>]

ReadRaceUnchanged ==
    UNCHANGED <<detectVars, keyVars, files, cacheVars, orchVars, seqVars, browserVars>>

\* writeToCache: writeFile opens the target, truncating it
WriterOpen ==
    /\ ~bytes.open
    /\ Len(bytes.log) < MaxWrites
    /\ \E h \in RaceHtmls :
          bytes' = [bytes EXCEPT !.exists = TRUE, !.text = << >>, !.mtime = now,
                                 !.open = TRUE,
                                 !.log = Append(@, [html |-> h, at |-> now])]
    /\ UNCHANGED <<calls, now>>
    /\ ReadRaceUnchanged

\* writeToCache: writeFile writes the text and closes the file
WriterWrite ==
    /\ bytes.open
    /\ LET w == Len(bytes.log)
       IN  bytes' = [bytes EXCEPT !.text = Overwrite(@, Text(w, bytes.log[w].html)),
                                  !.mtime = now, !.open = FALSE,
                                  !.log[w].at = now]
    /\ UNCHANGED <<calls, now>>
    /\ ReadRaceUnchanged

RaceTick ==
    /\ now < MaxTime
    /\ now' = now + 1
    /\ UNCHANGED <<calls, bytes>>
    /\ ReadRaceUnchanged

\* readFromCache is called, cache enabled: Promise.all([readFile, stat]) starts
ReadBegin ==
    /\ calls.pc = "idle"
    /\ \E ttlMs \in 1..MaxTtl :
          calls' = [calls EXCEPT !.pc = "reading", !.ttlMs = ttlMs]
    /\ UNCHANGED <<bytes, now>>
    /\ ReadRaceUnchanged

\* readFile(target, "utf8") completes; it rejects when there is no file
ReadFileDone ==
    /\ calls.pc = "reading"
    /\ calls.file = NoText
    /\ calls' = IF bytes.exists THEN [calls EXCEPT !.file = bytes.text]
                ELSE [calls EXCEPT !.pc = "returned", !.status = "null",
                                   !.checkedAt = now]
    /\ UNCHANGED <<bytes, now>>
    /\ ReadRaceUnchanged

\* stat(target) completes; it rejects when there is no file
StatDone ==
    /\ calls.pc = "reading"
    /\ calls.mtimeMs = << >>
    /\ calls' = IF bytes.exists
                THEN [calls EXCEPT !.mtimeMs = <<bytes.mtime>>,
                                   !.mtimeOf = Len(bytes.log)]
                ELSE [calls EXCEPT !.pc = "returned", !.status = "null",
                                   !.checkedAt = now]
    /\ UNCHANGED <<bytes, now>>
    /\ ReadRaceUnchanged

\* the entries whose complete text a string is: JSON.parse succeeds on these
ParsedAs(text) ==
    {w \in DOMAIN bytes.log : text = Text(w, bytes.log[w].html)}

\* both promises are fulfilled: JSON.parse, the version, freshness and URL
\* tests (every entry here is one writeToCache stored for this URL)
ReadEvaluate ==
    /\ calls.pc = "reading"
    /\ calls.file # NoText
    /\ calls.mtimeMs # << >>
    /\ calls' =
          IF ParsedAs(calls.file) = {}
          THEN [calls EXCEPT !.pc = "returned", !.status = "null", !.checkedAt = now]
          ELSE LET w == CHOOSE x \in ParsedAs(calls.file) : TRUE
               IN  IF IsFresh([mtime |-> calls.mtimeMs[1]], calls.ttlMs, now)
                   THEN [calls EXCEPT !.pc = "returned", !.status = "entry",
                                      !.entry = w, !.checkedAt = now]
                   ELSE [calls EXCEPT !.pc = "returned", !.status = "null",
                                      !.checkedAt = now]
    /\ UNCHANGED <<bytes, now>>
    /\ ReadRaceUnchanged

ReadRaceNext ==
    \/ WriterOpen
    \/ WriterWrite
    \/ RaceTick
    \/ ReadBegin
    \/ ReadFileDone
    \/ StatDone
    \/ ReadEvaluate

ReadRaceSpec == ReadRaceInit /\ [][ReadRaceNext]_vars

(***************************************************************************)
(* The fallback detector (src/auto-detect.ts).  Text, ids and class names  *)
(* are sequences of UTF-16 code units.  A document is the tree JSDOM       *)
(* builds from the markup: an element has a tag, an id, a class name and   *)
(* child nodes; a text node has tag "#text" and its text.                  *)
(***************************************************************************)
STAGE_1_BODY_TEXT_MIN == 100
STAGE_2_CONTENT_MIN == 200
STAGE_2_STRUCTURAL_TAGS ==
    {"article", "p", "pre", "li", "h1", "h2", "h3", "h4", "h5", "h6"}

IdRoot == <<114, 111, 111, 116>>    \* "root"
IdApp == <<97, 112, 112>>    \* "app"
IdNext == <<95, 95, 110, 101, 120, 116>>    \* "__next"
IdNuxt == <<95, 95, 110, 117, 120, 116>>    \* "__nuxt"
IdSvelte == <<95, 95, 115, 118, 101, 108, 116, 101>>    \* "__svelte"
SPA_ROOT_IDS == <<IdRoot, IdApp, IdNext, IdNuxt, IdSvelte>>

LOADING_INDICATORS == {<<108, 111, 97, 100, 105, 110, 103>>, <<108, 111, 97, 100, 105, 110, 103, 46, 46, 46>>}

Javascript == <<106, 97, 118, 97, 115, 99, 114, 105, 112, 116>>    \* "javascript"
BannerWords == {<<99, 111, 111, 107, 105, 101>>, <<99, 111, 110, 115, 101, 110, 116>>, <<98, 97, 110, 110, 101, 114>>}

El(tag, id, className, kids) ==
    [tag |-> tag, id |-> id, className |-> className, kids |-> kids, text |-> << >>]
Tx(text) ==
    [tag |-> "#text", id |-> << >>, className |-> << >>, kids |-> << >>, text |-> text]

\* \s of a regular expression and the white space String.prototype.trim takes
IsSpace(c) == c \in {9, 10, 11, 12, 13, 32, 160}

toLowerCase(s) == [i \in DOMAIN s |-> IF s[i] \in 65..90 THEN s[i] + 32 ELSE s[i]]

includes(s, sub) ==
    \E i \in 1..(Len(s) - Len(sub) + 1) : SubSeq(s, i, i + Len(sub) - 1) = sub

trim(s) ==
    LET inked == {i \in DOMAIN s : ~IsSpace(s[i])}
    IN  IF inked = {} THEN << >>
        ELSE SubSeq(s, CHOOSE i \in inked : \A j \in inked : i <= j,
                       CHOOSE i \in inked : \A j \in inked : i >= j)

\* text.replace(/\s+/g, " "): each run of white space becomes one space
CollapseSpace(s) ==
    LET marked == [i \in DOMAIN s |->
                     [c |-> IF IsSpace(s[i]) THEN 32 ELSE s[i],
                      inRun |-> IsSpace(s[i]) /\ i > 1 /\ IsSpace(s[i - 1])]]
        kept == SelectSeq(marked, LAMBDA m : ~m.inRun)
    IN  [i \in DOMAIN kept |-> kept[i].c]

\* node.textContent
RECURSIVE textContent(_), TextOfAll(_)
textContent(node) ==
    IF node.tag = "#text" THEN node.text ELSE TextOfAll(node.kids)

TextOfAll(nodes) ==
    IF nodes = << >> THEN << >>
    ELSE textContent(Head(nodes)) \o TextOfAll(Tail(nodes))

\* clone = el.cloneNode(true); every script and style element in it removed
RECURSIVE WithoutScripts(_), PruneScripts(_)
WithoutScripts(node) == [node EXCEPT !.kids = PruneScripts(node.kids)]

PruneScripts(nodes) ==
    IF nodes = << >> THEN << >>
    ELSE IF Head(nodes).tag \in {"script", "style"} THEN PruneScripts(Tail(nodes))
    ELSE <<WithoutScripts(Head(nodes))>> \o PruneScripts(Tail(nodes))

\* the elements of a tree in document order, each with the ids and class
\* names of its ancestors, nearest first
RECURSIVE Elements(_, _), ElementsOfAll(_, _)
Elements(node, parents) ==
    IF node.tag = "#text" THEN << >>
    ELSE <<[el |-> node, parents |-> parents]>>
         \o ElementsOfAll(node.kids,
                          <<[id |-> node.id, className |-> node.className]>> \o parents)

ElementsOfAll(nodes, parents) ==
    IF nodes = << >> THEN << >>
    ELSE Elements(Head(nodes), parents) \o ElementsOfAll(Tail(nodes), parents)

\* document.querySelectorAll(tag)
querySelectorAll(document, tags) ==
    SelectSeq(Elements(document, << >>), LAMBDA e : e.el.tag \in tags)

\* document.getElementById(id): the first such element, or none
getElementById(document, id) ==
    LET found == SelectSeq(Elements(document, << >>), LAMBDA e : e.el.id = id)
    IN  IF found = << >> THEN << >> ELSE <<Head(found).el>>

Body(document) == Head(querySelectorAll(document, {"body"})).el

\* getBodyTextCount (auto-detect.ts:20-35)
getBodyTextCount(document) ==
    Len(trim(CollapseSpace(textContent(WithoutScripts(Body(document))))))

IsBannerName(name) == \E w \in BannerWords : includes(toLowerCase(name), w)

\* isCookieBannerWrapper (auto-detect.ts:37-62): the element's ancestors
isCookieBannerWrapper(parents) ==
    \E i \in DOMAIN parents :
        IsBannerName(parents[i].className) \/ IsBannerName(parents[i].id)

\* isLoadingIndicator (auto-detect.ts:64-66)
isLoadingIndicator(text) == toLowerCase(trim(text)) \in LOADING_INDICATORS

\* a test that takes every child with text for content
hasMeaningfulChildrenAnyText(element) ==
    \E i \in DOMAIN element.kids :
        LET child == element.kids[i]
        IN  /\ child.tag \notin {"#text", "script", "style"}
            /\ Len(trim(textContent(child))) > 0

\* hasMeaningfulChildren (auto-detect.ts:68-80)
hasMeaningfulChildren(element) ==
    \E i \in DOMAIN element.kids :
        LET child == element.kids[i]
            childText == trim(textContent(child))
        IN  /\ child.tag \notin {"#text", "script", "style"}
            /\ Len(childText) > 0
            /\ ~isLoadingIndicator(childText)

\* the body of the loop of isEmptyRootDiv for one root id
IsEmptyRoot(document, rootId) ==
    LET rootEl == getElementById(document, rootId)
    IN  IF rootEl = << >> THEN FALSE
        ELSE LET clone == WithoutScripts(Head(rootEl))
                 text == trim(textContent(clone))
             IN  /\ ~hasMeaningfulChildren(clone)
                 /\ Len(text) = 0 \/ isLoadingIndicator(text)

\* isEmptyRootDiv (auto-detect.ts:82-108)
isEmptyRootDiv(document) ==
    \E i \in DOMAIN SPA_ROOT_IDS : IsEmptyRoot(document, SPA_ROOT_IDS[i])

\* the check of the earlier release: document.querySelector("noscript")
QualifyingNoscriptFirstOnly(document) ==
    LET noscripts == querySelectorAll(document, {"noscript"})
    IN  /\ noscripts # << >>
        /\ includes(toLowerCase(textContent(Head(noscripts).el)), Javascript)
        /\ ~isCookieBannerWrapper(Head(noscripts).parents)

\* the loop of hasNoscriptAndEmptyBody
QualifyingNoscript(document) ==
    LET noscripts == querySelectorAll(document, {"noscript"})
    IN  \E i \in DOMAIN noscripts :
           /\ includes(toLowerCase(textContent(noscripts[i].el)), Javascript)
           /\ ~isCookieBannerWrapper(noscripts[i].parents)

\* hasNoscriptAndEmptyBody (auto-detect.ts:110-140)
hasNoscriptAndEmptyBody(document) ==
    /\ QualifyingNoscript(document)
    /\ getBodyTextCount(document) < STAGE_1_BODY_TEXT_MIN

\* a test that takes a text of the minimum length for sparse
isContentTooSparseInclusive(document) ==
    IF Len(trim(textContent(Body(document)))) > STAGE_2_CONTENT_MIN THEN FALSE
    ELSE querySelectorAll(document, STAGE_2_STRUCTURAL_TAGS) = << >>

\* isContentTooSparse (auto-detect.ts:142-156)
isContentTooSparse(document) ==
    IF Len(trim(textContent(Body(document)))) >= STAGE_2_CONTENT_MIN THEN FALSE
    ELSE querySelectorAll(document, STAGE_2_STRUCTURAL_TAGS) = << >>

\* if (stage !== "stage2")
RunsStage1(stage) == stage # "stage2"

\* a Stage 2 that runs in raw mode as well
RunsStage2InRawMode(stage, raw) == stage # "stage1"

\* if (stage !== "stage1" && !options.raw)
RunsStage2(stage, raw) == stage # "stage1" /\ ~raw

\* hasExtracted = extractedHtml !== undefined && extractedHtml !== null
HasExtracted(extracted) == extracted.given = "html"

ReasonEmptyRoot == "Empty SPA root div detected"
ReasonNoscript == "Noscript with javascript and sparse body"
ReasonTooSparse == "Extracted content is too sparse"

\* detectNeedForBrowser (auto-detect.ts:165-196): the result, and the checks
\* the call evaluated on its way
DetectionResult(rawHtml, extracted, options) ==
    LET stage == IF options.stage = Absent THEN "both" ELSE options.stage
        stage1 == RunsStage1(stage)
        emptyRoot == stage1 /\ isEmptyRootDiv(rawHtml)
        noscript == stage1 /\ ~emptyRoot /\ hasNoscriptAndEmptyBody(rawHtml)
        stage2 == ~emptyRoot /\ ~noscript /\ RunsStage2(stage, options.raw)
        sparse == stage2 /\ HasExtracted(extracted) /\ isContentTooSparse(extracted.html)
    IN  [op |-> "detect",
         evaluated |->
             (IF stage1 THEN {"isEmptyRootDiv"} ELSE {})
             \cup (IF stage1 /\ ~emptyRoot THEN {"hasNoscriptAndEmptyBody"} ELSE {})
             \cup (IF stage2 /\ HasExtracted(extracted) THEN {"isContentTooSparse"}
                   ELSE {}),
         shouldFallback |-> emptyRoot \/ noscript \/ sparse,
         reason |-> IF emptyRoot THEN ReasonEmptyRoot
                    ELSE IF noscript THEN ReasonNoscript
                    ELSE IF sparse THEN ReasonTooSparse
                    ELSE Absent]

(***************************************************************************)
(* The markup the detector is called with: the documents of the tests      *)
(* (auto-detect.test.ts) and variations of them around the two minimum     *)
(* lengths.                                                                *)
(***************************************************************************)
A(n) == [i \in 1..n |-> 97]          \* "a".repeat(n)
Spaces(n) == [i \in 1..n |-> 32]     \* " ".repeat(n)

Document(bodyClass, bodyKids) ==
    El("html", << >>, << >>,
       <<El("head", << >>, << >>, << >>), El("body", << >>, bodyClass, bodyKids)>>)

NoName == << >>
Div(id, className, kids) == El("div", id, className, kids)
Tag(tag, kids) == El(tag, NoName, NoName, kids)

LoadingDots == <<76, 111, 97, 100, 105, 110, 103, 46, 46, 46>>    \* "Loading..."
LoadingUpper == <<32, 76, 79, 65, 68, 73, 78, 71, 32>>    \* " LOADING "
LoadingLower == <<108, 111, 97, 100, 105, 110, 103>>    \* "loading"
LoadingWait == <<76, 111, 97, 100, 105, 110, 103, 44, 32, 112, 108, 101, 97, 115, 101, 32, 119, 97, 105, 116>>    \* "Loading, please wait"
ContentHere == <<67, 111, 110, 116, 101, 110, 116, 32, 104, 101, 114, 101>>    \* "Content here"
Short == <<83, 104, 111, 114, 116>>    \* "Short"
JsRequired == <<74, 97, 118, 97, 83, 99, 114, 105, 112, 116, 32, 105, 115, 32, 114, 101, 113, 117, 105, 114, 101, 100>>    \* "JavaScript is required"
EnableJs == <<69, 110, 97, 98, 108, 101, 32, 106, 97, 118, 97, 115, 99, 114, 105, 112, 116>>    \* "Enable javascript"
EnableCookies == <<80, 108, 101, 97, 115, 101, 32, 101, 110, 97, 98, 108, 101, 32, 99, 111, 111, 107, 105, 101, 115>>    \* "Please enable cookies"
IdMain == <<109, 97, 105, 110>>    \* "main"
IdConsent == <<67, 111, 110, 115, 101, 110, 116, 45, 68, 105, 97, 108, 111, 103>>    \* "Consent-Dialog"
ClassCookieBanner == <<99, 111, 111, 107, 105, 101, 45, 98, 97, 110, 110, 101, 114>>    \* "cookie-banner"
ClassConsentBanner == <<99, 111, 110, 115, 101, 110, 116, 45, 98, 97, 110, 110, 101, 114>>    \* "consent-banner"
ClassPage == <<112, 97, 103, 101>>    \* "page"

\* what the mount point of an application holds
RootKids ==
    {<< >>,
     <<Tx(Spaces(3))>>,
     <<Tag("span", <<Tx(LoadingDots)>>)>>,
     <<Tx(LoadingUpper)>>,
     <<Tag("p", <<Tx(ContentHere)>>)>>,
     <<Tag("div", << >>)>>,
     <<Tag("span", <<Tx(Spaces(3))>>)>>,
     <<Tag("script", <<Tx(ContentHere)>>)>>,
     <<Tx(ContentHere)>>,
     <<Tag("span", <<Tx(LoadingDots)>>), Tag("span", <<Tx(LoadingLower)>>)>>,
     <<Tag("div", <<Tag("p", <<Tx(ContentHere)>>)>>)>>,
     <<Tx(LoadingWait)>>,
     <<Tag("span", <<Tx(LoadingDots)>>), Tag("script", <<Tx(ContentHere)>>)>>,
     <<Tx(Spaces(1)), Tag("span", <<Tx(LoadingLower)>>), Tx(Spaces(1))>>}

RootDocuments ==
    {Document(NoName, <<Div(id, NoName, kids)>>) :
         id \in {IdRoot, IdNext, IdMain}, kids \in RootKids}
    \cup {Document(NoName, <<Div(IdRoot, NoName, first), Div(IdApp, NoName, second)>>) :
              first, second \in {<< >>, <<Tag("p", <<Tx(ContentHere)>>)>>}}
    \cup {Document(NoName, <<Tag("p", <<Tx(ContentHere)>>)>>), Document(NoName, << >>)}

\* the noscript elements of a page, with what they are nested in
NoscriptParts ==
    {<<Tag("noscript", <<Tx(JsRequired)>>)>>,
     <<Div(NoName, ClassCookieBanner, <<Tag("noscript", <<Tx(EnableJs)>>)>>)>>,
     <<Div(IdConsent, NoName,
           <<Div(NoName, ClassPage, <<Tag("noscript", <<Tx(EnableJs)>>)>>)>>)>>,
     <<Tag("noscript", <<Tx(EnableCookies)>>)>>,
     <<Tag("noscript", <<Tx(EnableCookies)>>), Tag("noscript", <<Tx(JsRequired)>>)>>,
     <<Div(NoName, ClassConsentBanner, <<Tag("noscript", <<Tx(EnableJs)>>)>>),
       Tag("noscript", <<Tx(JsRequired)>>)>>,
     <<El("noscript", NoName, ClassCookieBanner, <<Tx(JsRequired)>>)>>}

\* the rest of the body: its text is just under, or at, the minimum when it
\* follows the noscript text "JavaScript is required"
BodyRests ==
    {<< >>,
     <<Tag("p", <<Tx(Short)>>)>>,
     <<Tx(A(STAGE_1_BODY_TEXT_MIN - Len(JsRequired) - 1))>>,
     <<Tx(A(STAGE_1_BODY_TEXT_MIN - Len(JsRequired)))>>,
     <<Tx(A(STAGE_1_BODY_TEXT_MIN + 50))>>,
     <<Tx(A(STAGE_1_BODY_TEXT_MIN - Len(JsRequired) - 12) \o Spaces(50) \o A(10))>>,
     <<Tag("script", <<Tx(A(STAGE_1_BODY_TEXT_MIN + 50))>>)>>}

NoscriptDocuments ==
    {Document(NoName, n \o rest) : n \in NoscriptParts, rest \in BodyRests}
    \cup {Document(ClassCookieBanner, <<Tag("noscript", <<Tx(JsRequired)>>)>>),
          Document(NoName, <<Div(IdRoot, NoName, << >>),
                             Tag("noscript", <<Tx(JsRequired)>>)>>),
          Document(NoName, <<Div(IdRoot, NoName, <<Tag("p", <<Tx(ContentHere)>>)>>),
                             Tag("noscript", <<Tx(JsRequired)>>)>>),
          Document(NoName, <<Tx(A(STAGE_1_BODY_TEXT_MIN + 50))>>)}

RawDocuments == RootDocuments \cup NoscriptDocuments

\* the fragments main-content extraction hands over, as JSDOM parses them
Fragments ==
    {Document(NoName, kids) : kids \in
        {<< >>,
         <<Tag("div", <<Tx(Short)>>)>>,
         <<Tag("p", <<Tx(Short)>>)>>,
         <<Tag("div", <<Tag("h3", << >>)>>)>>,
         <<Tag("div", <<Tx(A(STAGE_2_CONTENT_MIN - 1))>>)>>,
         <<Tag("div", <<Tx(A(STAGE_2_CONTENT_MIN))>>)>>,
         <<Tag("div", <<Tx(A(STAGE_2_CONTENT_MIN + 50))>>)>>,
         <<Tag("li", <<Tx(A(STAGE_2_CONTENT_MIN + 50))>>)>>,
         <<Tag("div", <<Tx(Spaces(150) \o A(STAGE_2_CONTENT_MIN - 100) \o Spaces(150))>>)>>,
         <<Tag("div", <<Tx(A(1) \o Spaces(STAGE_2_CONTENT_MIN - 2) \o A(1))>>)>>}}

\* extractedHtml: a fragment, null or undefined; html is what new JSDOM(...)
\* makes of the argument, the text "null" for null
Null == <<110, 117, 108, 108>>    \* "null"
Extracted ==
    {[given |-> "html", html |-> f] : f \in Fragments}
    \cup {[given |-> "null", html |-> Document(NoName, <<Tx(Null)>>)],
          [given |-> "undefined", html |-> Document(NoName, << >>)]}

DetectOptions == [raw : BOOLEAN, stage : {Absent, "stage1", "stage2", "both"}]

DetectInit ==
    /\ kUrl = CacheUrl
    /\ optsA = RawExtraction
    /\ optsB = RawExtraction
    /\ keyA = NoKey
    /\ keyB = NoKey
    /\ kPhase = "detect"
    /\ files = [k \in {RaceKey} |-> NoFile]
    /\ now = 0
    /\ lastRead = NoCall
    /\ lastWrite = NoCall
    /\ OneCallIdle
    /\ RaceIdle
    /\ doc \in [rawHtml : RawDocuments, extracted : Extracted, options : DetectOptions]
    /\ detection = NoCall

\* one call of detectNeedForBrowser returns
DetectNeedForBrowser ==
    /\ detection = NoCall
    /\ detection' = DetectionResult(doc.rawHtml, doc.extracted, doc.options)
    /\ UNCHANGED <<doc, raceVars, keyVars, diskVars, cacheVars, orchVars, seqVars,
                   browserVars>>

DetectNext == DetectNeedForBrowser

DetectSpec == DetectInit /\ [][DetectNext]_vars

(***************************************************************************)
(* Claims about the cache store.                                           *)
(***************************************************************************)
ReadReturned == lastRead.op = "read"
SeenFile == files[lastRead.key]

ReadFails ==
    \/ SeenFile.kind # "json"
    \/ SeenFile.cacheVersion # 2
    \/ SeenFile.mtime + lastRead.ttlMs <= now
    \/ SeenFile.url # lastRead.url

\* C2: readFromCache never throws; a missing file, unparsable content, a
\* version mismatch, an expired entry and a URL mismatch all give null.
C2_ReadNeverThrows ==
    ReadReturned =>
        /\ lastRead.result.status # "threw"
        /\ ReadFails => lastRead.result = ResultNull

\* C2 witness: an enabled read of a file that JSON.parse rejects has
\* returned null.
C2_Witness ==
    /\ ReadReturned
    /\ lastRead.enabled
    /\ SeenFile.kind = "garbage"
    /\ lastRead.result = ResultNull

\* C3: option sets with the same raw, stripLinks and encoding whose
\* exclusion-selector lists are permutations of each other get the same
\* cache key.
C3_PermutedSelectorsSameKey == kPhase = "permuted" => keyA = keyB

\* C3 witness: two keys were built for selector lists in different orders.
C3_Witness ==
    /\ kPhase = "permuted"
    /\ optsA.excludeSelectors # optsB.excludeSelectors
    /\ keyA = keyB

OptionsDiffer(a, b) ==
    \/ a.raw # b.raw
    \/ a.stripLinks # b.stripLinks
    \/ SetOf(a.excludeSelectors) # SetOf(b.excludeSelectors)
    \/ a.encoding # b.encoding

\* C4: option sets that differ in raw, stripLinks, the set of exclusion
\* selectors or the encoding get different cache keys, also when a selector
\* contains the separator character.
C4_DifferentOptionsDifferentKey ==
    (kPhase = "paired" /\ OptionsDiffer(optsA, optsB)) => keyA # keyB

\* C5: selector lists that hold the same selectors and differ only in how
\* often one is repeated get the same cache key.
C5_RepeatedSelectorSameKey == kPhase = "repeated" => keyA = keyB

(***************************************************************************)
(* Claims about the orchestrator.                                          *)
(***************************************************************************)
Returned == pc = "done"
ReadAnEntry == cacheEntry.op = "read" /\ cacheEntry.status = "entry"
CacheChecked == cached # NoCall
Concrete == {"static", "headless"}

\* C6: a fetch never returns fromCache = true with a payload written by a
\* request whose raw flag or encoding differ from the current request's.
C6_HitOnlyFromSameOptions ==
    (Returned /\ outcome.fromCache /\ outcome.writer # NoWriter)
        => outcome.writer = [raw |-> req.raw, encoding |-> req.encoding]

\* C7: an entry the read returned is used if and only if its strategy is
\* one of the two concrete strategies and the mode is auto or equals it.
C7_UsedIffConcreteAndModeMatches ==
    ReadAnEntry =>
        ((Returned /\ outcome.fromCache)
            <=> /\ cacheEntry.entry.strategy \in Concrete
                /\ req.mode \in {"auto", cacheEntry.entry.strategy})

\* C8: on a usable cache hit the call returns the cached payload with
\* fromCache = true and has made no static fetch, no capability check, no
\* render fetch, no detector call and no cache write.
C8_HitReturnsWithoutWork ==
    (CacheChecked /\ cached.hit) =>
        /\ Returned
        /\ outcome.fromCache
        /\ outcome.html = cacheEntry.entry.body
        /\ did = NothingDone

\* C8 witness: a call has returned the payload of a cache entry.
C8_Witness ==
    /\ CacheChecked
    /\ cached.hit
    /\ Returned
    /\ outcome.fromCache
    /\ outcome.html = RenderedHtml

\* C9: every outcome carries one of the two concrete strategies.
C9_StrategyIsConcrete == Returned => outcome.strategyUsed \in Concrete

\* C10: in forced-static mode, after a miss or an unusable hit, the call
\* makes the static fetch only: no detector call, no capability check, no
\* render fetch, and the outcome's strategy is static.
C10_ForcedStaticOnlyStatic ==
    (CacheChecked /\ req.mode = "static" /\ ~cached.hit) =>
        /\ did.detect = 0
        /\ did.check = 0
        /\ did.render = 0
        /\ did.static <= 1
        /\ Returned =>
              /\ did.static = 1
              /\ outcome.strategyUsed = "static"
              /\ ~outcome.fromCache

\* C10 witness: a forced-static call found an entry of the other strategy,
\* fetched an empty application shell statically and returned it.
C10_Witness ==
    /\ req.mode = "static"
    /\ ReadAnEntry
    /\ cacheEntry.entry.strategy = "headless"
    /\ ~cached.hit
    /\ Returned
    /\ staticResult.page = "shell"
    /\ outcome.strategyUsed = "static"

\* C11: in forced-render mode a failed capability check or a failed render
\* fetch fails the call: no static fetch is made in that mode and no result
\* is returned in place of the failed render.
C11_ForcedRenderFailureFails ==
    req.mode = "headless" =>
        /\ did.static = 0
        /\ failure \in {"check", "render"} =>
              /\ pc = "failed"
              /\ outcome = NoResult
              /\ did.write = 0

\* C11 witness: a forced-render call has failed in the render fetch, after a
\* capability check that passed.
C11_Witness ==
    /\ req.mode = "headless"
    /\ failure = "render"
    /\ did.check = 1
    /\ pc = "failed"

NonHtmlTypes == {"application/pdf"}

\* C12: in auto mode, when the static response declares a content type
\* outside the HTML family, the detector is never invoked, no capability
\* check and no render fetch happen, and the static result is final with
\* strategy static.
C12_NonHtmlIsStaticFinal ==
    (req.mode = "auto" /\ staticResult.contentType \in NonHtmlTypes
        /\ pc # "probed") =>
        /\ did.detect = 0
        /\ did.check = 0
        /\ did.render = 0
        /\ fetched = StaticFinal
        /\ failure \in {"none", "write"}
        /\ Returned =>
              /\ outcome.strategyUsed = "static"
              /\ outcome.html = staticResult.html
              /\ outcome.finalUrl = staticResult.finalUrl
              /\ ~outcome.fromCache

\* C12 witness: an auto-mode call got a PDF whose bytes look like an empty
\* application shell and returned it as the static result.
C12_Witness ==
    /\ req.mode = "auto"
    /\ staticResult.contentType = "application/pdf"
    /\ staticResult.page = "shell"
    /\ Returned
    /\ outcome.strategyUsed = "static"

\* detector calls fetchWithAutoDetect makes on the static probe before it
\* falls back
DetectorCallsBeforeFallback ==
    IF detectNeedForBrowser(staticResult.page, FALSE, req.raw, "stage1") THEN 1 ELSE 2

\* C13: a call makes at most one static fetch and at most one render fetch;
\* in auto mode, once the render fetch after a fallback has resolved, the
\* detector is not invoked on the rendered markup and the rendered result
\* is final with strategy headless, whatever the rendered markup is.
C13_OneFetchEachRenderIsFinal ==
    /\ did.static <= 1
    /\ did.render <= 1
    /\ did.check <= 1
    /\ (req.mode = "auto" /\ rendered # Absent) =>
          /\ did.detect = DetectorCallsBeforeFallback
          /\ fetched.strategy = "headless"
          /\ fetched.html = RenderedHtml
          /\ pc \in {"write", "done", "failed"}
          /\ pc = "failed" => failure = "write"
          /\ Returned =>
                /\ outcome.strategyUsed = "headless"
                /\ outcome.html = RenderedHtml

\* C13 witness: an auto-mode call fell back in Stage 2, rendered markup that
\* Stage 1 would flag again, and returned it.
C13_Witness ==
    /\ req.mode = "auto"
    /\ staticResult.page = "boilerplate"
    /\ rendered = "shell"
    /\ did.detect = 2
    /\ Returned
    /\ outcome.strategyUsed = "headless"

\* the file under the key of the orchestrator's URL
OrchFile == files[buildCachePath(OrchUrl, NoExtraction)]

\* the step from the write to the return of a call with caching enabled
WriteStep == pc = "write" /\ pc' = "done" /\ ~req.noCache

\* C14: with caching enabled a successful call that did not hit the cache
\* writes exactly one entry, holding the final html, finalUrl and strategy;
\* no step of the call before the write changes the cache, so the markup
\* of a static probe that a render fallback superseded is never written.
C14_OneWriteOfFinalResult ==
    /\ [](/\ (Returned /\ ~outcome.fromCache /\ ~req.noCache) => did.write = 1
          /\ ~Returned => did.write = 0)
    /\ [][/\ (pc' # pc /\ pc # "write") => files' = files
          /\ WriteStep =>
                /\ OrchFile'.kind = "json"
                /\ OrchFile'.url = req.url
                /\ OrchFile'.body = outcome'.html
                /\ OrchFile'.finalUrl = outcome'.finalUrl
                /\ OrchFile'.strategy = outcome'.strategyUsed
                /\ rendered # Absent => OrchFile'.body = RenderedHtml]_vars

\* C14 witness: an auto-mode call that fell back to the render fetch has
\* returned, and the cache holds the rendered markup with strategy headless.
C14_Witness ==
    /\ req.mode = "auto"
    /\ staticResult # NoProbe
    /\ rendered # Absent
    /\ Returned
    /\ did.write = 1
    /\ OrchFile.body = RenderedHtml
    /\ OrchFile.strategy = "headless"

\* a forced mode meets an entry recorded with the other concrete strategy
ForcedAgainstEntry ==
    /\ ReadAnEntry
    /\ req.mode \in Concrete
    /\ cacheEntry.entry.strategy \in Concrete
    /\ cacheEntry.entry.strategy # req.mode

\* C16: a fresh entry recorded with one concrete strategy is not reused by
\* a request that forces the other: the call fetches with the forced
\* strategy, returns fromCache = false with that strategy, and its write
\* leaves the entry recording the forced strategy.
C16_ForcedModeBypassesEntry ==
    /\ [](ForcedAgainstEntry =>
            /\ ~cached.hit
            /\ Returned =>
                  /\ ~outcome.fromCache
                  /\ outcome.strategyUsed = req.mode
                  /\ did.static = (IF req.mode = "static" THEN 1 ELSE 0)
                  /\ did.render = (IF req.mode = "headless" THEN 1 ELSE 0))
    /\ [][(ForcedAgainstEntry /\ WriteStep) =>
              /\ OrchFile'.kind = "json"
              /\ OrchFile'.strategy = req.mode
              /\ OrchFile'.body = outcome'.html]_vars

\* C16 witness: a forced-static call has met a fresh entry recorded with
\* strategy headless, fetched statically and returned, and the entry now
\* records strategy static.
C16_Witness ==
    /\ ForcedAgainstEntry
    /\ req.mode = "static"
    /\ cacheEntry.entry.body = RenderedHtml
    /\ Returned
    /\ outcome.strategyUsed = "static"
    /\ OrchFile.strategy = "static"
    /\ OrchFile.writer # NoWriter

\* the second call is about to read the cache within the TTL of what the
\* first, successful call wrote
SecondReadWithinTtl ==
    /\ pc = "cacheCheck"
    /\ prev # NoCall
    /\ prev.ok
    /\ ~req.noCache
    /\ OrchFile.mtime + req.ttlMs > now

EnsureCalled == install # NoCall
\* a CI environment is set: process.env.CI holds a non-empty value
CiSet == install.env.ci = "true"
Confirmed == install.answer \in {"y", "Y"}
Declined == install.answer \in {"n", "yes", ""}

\* C17: the capability check fails without a prompt when the dependency
\* cannot be imported; succeeds without a prompt when the browser launches;
\* with the browser missing it prompts only on a TTY without CI, proceeds
\* only on a confirmation, and otherwise (no TTY, CI, or a decline) fails
\* with the install instruction, without waiting for input when there is
\* no TTY or CI is set.
C17_CapabilityCheckOutcomes ==
    EnsureCalled =>
        /\ ~install.env.importable =>
              /\ ~install.prompted
              /\ install.pc \in {"import", "failed"}
              /\ install.pc = "failed" => install.error = NotInstalledError
        /\ (install.env.importable /\ install.env.launches) =>
              /\ ~install.prompted
              /\ install.pc \in {"import", "launch", "ok"}
        /\ install.prompted =>
              /\ install.env.importable
              /\ ~install.env.launches
              /\ install.env.isTTY
              /\ ~CiSet
        /\ (install.pc \in {"install", "ok"} /\ ~install.env.launches) =>
              /\ install.prompted
              /\ Confirmed
        /\ (install.env.importable /\ ~install.env.launches
                /\ (~install.env.isTTY \/ CiSet)) =>
              /\ install.pc \in {"import", "launch", "failed"}
              /\ install.pc = "failed" => install.error = InstallInstruction
        /\ Declined =>
              /\ install.pc = "failed"
              /\ install.error = InstallInstruction

\* C17 witness: with the browser missing, on a terminal inside CI, the check
\* has failed with the install instruction and has not prompted.
C17_Witness ==
    /\ EnsureCalled
    /\ install.env.importable
    /\ ~install.env.launches
    /\ install.env.isTTY
    /\ CiSet
    /\ install.pc = "failed"
    /\ install.error = InstallInstruction
    /\ ~install.prompted

RenderCalled == browser # NoCall

\* max(5000 ms, floor(configured timeout / 2)) for the timeouts of the model
ExpectedIdleTimeout ==
    IF browser.page.timeoutMs = << >> THEN 15000
    ELSE IF browser.page.timeoutMs = <<4000>> THEN 5000
    ELSE IF browser.page.timeoutMs = <<10001>> THEN 5000
    ELSE 10000

\* C18: the render fetch goes on to the network-idle wait only after the
\* load event; that wait has its own timeout, max(5000 ms, floor(configured
\* timeout / 2)); when it times out the call does not fail but returns the
\* content present after load with the page's final URL.
C18_IdleTimeoutIsNotAFailure ==
    RenderCalled =>
        /\ browser.pc \in {"networkidle", "content", "close", "ok"} =>
              /\ browser.page.loadAfter # << >>
              /\ browser.idleTimeout = <<ExpectedIdleTimeout>>
        /\ browser.idle = "reached" =>
              /\ browser.page.idleAfter # << >>
              /\ browser.page.idleAfter[1] <= ExpectedIdleTimeout
        /\ browser.idle = "timeout" =>
              /\ browser.pc \in {"content", "close", "ok"}
              /\ browser.error = Absent
              /\ \/ browser.page.idleAfter = << >>
                 \/ browser.page.idleAfter[1] > ExpectedIdleTimeout
        /\ (browser.idle = "timeout" /\ browser.pc = "ok") =>
              /\ browser.html = HtmlAfterLoad
              /\ browser.finalUrl = browser.page.finalUrl

\* C18 witness: with a configured timeout of 10001 ms the network went idle
\* 5001 ms after load; the wait timed out and the call returned the content
\* after load with the URL the page was redirected to.
C18_Witness ==
    /\ RenderCalled
    /\ browser.page.timeoutMs = <<10001>>
    /\ browser.page.idleAfter = <<5001>>
    /\ browser.page.finalUrl = UrlV
    /\ browser.idle = "timeout"
    /\ browser.pc = "ok"
    /\ browser.html = HtmlAfterLoad
    /\ browser.finalUrl = UrlV

(***************************************************************************)
(* Claims about expiry and read-after-write.                               *)
(***************************************************************************)
\* C19: a read returns an entry only while the file's modification time
\* plus the TTL is strictly later than the time of the read; from then on,
\* with the file unchanged, a read with that TTL returns null; and a read
\* leaves every file as it is.
C19_ExpiredIsAbsentAndKept ==
    /\ [](ReadReturned =>
            /\ lastRead.result.status = "entry" =>
                  SeenFile.mtime + lastRead.ttlMs > now
            /\ SeenFile.mtime + lastRead.ttlMs <= now =>
                  lastRead.result = ResultNull)
    /\ [][lastRead'.op = "read" => files' = files]_vars

\* C19 witness: a read at the very instant the TTL of a current-version
\* entry for the requested URL ended has returned null, and the file is
\* still there.
C19_Witness ==
    /\ ReadReturned
    /\ lastRead.enabled
    /\ SeenFile.kind = "json"
    /\ SeenFile.cacheVersion = CACHE_VERSION
    /\ SeenFile.url = lastRead.url
    /\ SeenFile.mtime + lastRead.ttlMs = now
    /\ lastRead.result = ResultNull

ReadOldEntry ==
    /\ kPhase = "cacheV1"
    /\ ReadReturned
    /\ lastRead.enabled
    /\ SeenFile = OldEntry(lastRead.url, SeenFile.mtime)
    /\ IsFresh(SeenFile, lastRead.ttlMs, now)

BothFetched ==
    /\ kPhase = "race"
    /\ \A p \in Procs : calls[p].pc = "returned" /\ ~calls[p].result.fromCache

C22_LastWriterWins ==
    BothFetched =>
        /\ \A p \in Procs :
              /\ calls[p].result.html = calls[p].fetched.html
              /\ calls[p].result.finalUrl = calls[p].fetched.finalUrl
              /\ calls[p].result.strategyUsed = calls[p].fetched.strategy
        /\ bytes.text = Text(bytes.lastWriter, calls[bytes.lastWriter].fetched.html)

(***************************************************************************)
(* Claims about the fallback detector.                                     *)
(***************************************************************************)
Detected == kPhase = "detect" /\ detection # NoCall
StageOf == IF doc.options.stage = Absent THEN "both" ELSE doc.options.stage
Supplied == doc.extracted.given = "html"
Stage1Flagged == detection.reason \in {ReasonEmptyRoot, ReasonNoscript}

\* C23 as stated: a call evaluates Stage 1 exactly when the selector is not
\* stage2, and evaluates the Stage 2 sparsity check exactly when the selector
\* is not stage1, raw is false and extracted content is supplied; without
\* extracted content it returns, and never with the "too sparse" reason.
C23_StagesEvaluatedAsSelected ==
    Detected =>
        /\ "isEmptyRootDiv" \in detection.evaluated <=> StageOf # "stage2"
        /\ "isContentTooSparse" \in detection.evaluated
              <=> (StageOf # "stage1" /\ ~doc.options.raw /\ Supplied)
        /\ ~Supplied => detection.reason # ReasonTooSparse

\* C23 as amended: a call evaluates Stage 1 exactly when the selector is not
\* stage2, and evaluates the Stage 2 sparsity check exactly when the selector
\* is not stage1, raw is false, extracted content is supplied and Stage 1 did
\* not flag the page; without extracted content it returns, and never with
\* the "too sparse" reason.
C23_Stage2OnlyAfterStage1Passed ==
    Detected =>
        /\ "isEmptyRootDiv" \in detection.evaluated <=> StageOf # "stage2"
        /\ "isContentTooSparse" \in detection.evaluated
              <=> (StageOf # "stage1" /\ ~doc.options.raw /\ Supplied
                   /\ ~Stage1Flagged)
        /\ ~Supplied => detection.reason # ReasonTooSparse

C23_Witness ==
    /\ Detected
    /\ StageOf = "both"
    /\ ~doc.options.raw
    /\ Supplied
    /\ isContentTooSparse(doc.extracted.html)
    /\ Stage1Flagged
    /\ "isContentTooSparse" \notin detection.evaluated

\* C24: when Stage 2 is evaluated it flags fallback, with the "too sparse"
\* reason, exactly when the trimmed text of the extracted fragment is shorter
\* than 200 characters and the fragment holds none of the tags article, p,
\* pre, li, h1..h6.
Stage2Evaluated == Detected /\ "isContentTooSparse" \in detection.evaluated
FragmentTextLength == Len(trim(textContent(Body(doc.extracted.html))))
FragmentHasStructure ==
    \E i \in DOMAIN Elements(doc.extracted.html, << >>) :
        Elements(doc.extracted.html, << >>)[i].el.tag
            \in {"article", "p", "pre", "li", "h1", "h2", "h3", "h4", "h5", "h6"}

C24_SparseIffShortAndUnstructured ==
    Stage2Evaluated =>
        ((detection.shouldFallback /\ detection.reason = ReasonTooSparse)
            <=> (FragmentTextLength < 200 /\ ~FragmentHasStructure))

C24_Witness ==
    /\ Stage2Evaluated
    /\ FragmentTextLength = 199
    /\ ~FragmentHasStructure
    /\ detection.shouldFallback
    /\ detection.reason = ReasonTooSparse

\* C25: the noscript check flags exactly when the body text, script and style
\* removed and white space collapsed, is under 100 characters and some
\* noscript element, wherever it stands among the noscript elements, has text
\* containing "javascript" in any case and no ancestor whose class or id
\* contains cookie, consent or banner.
NoscriptEvaluated == Detected /\ "hasNoscriptAndEmptyBody" \in detection.evaluated
BodyTextLength ==
    Len(trim(CollapseSpace(textContent(WithoutScripts(Body(doc.rawHtml))))))
Qualifies(e) ==
    /\ e.el.tag = "noscript"
    /\ includes(toLowerCase(textContent(e.el)), Javascript)
    /\ \A i \in DOMAIN e.parents :
          \A w \in BannerWords :
              /\ ~includes(toLowerCase(e.parents[i].className), w)
              /\ ~includes(toLowerCase(e.parents[i].id), w)
QualifyingAt ==
    {i \in DOMAIN Elements(doc.rawHtml, << >>) :
        Qualifies(Elements(doc.rawHtml, << >>)[i])}
DisqualifiedAt ==
    {i \in DOMAIN Elements(doc.rawHtml, << >>) :
        /\ Elements(doc.rawHtml, << >>)[i].el.tag = "noscript"
        /\ ~Qualifies(Elements(doc.rawHtml, << >>)[i])}

C25_NoscriptFlagsIffSparseAndQualifying ==
    NoscriptEvaluated =>
        ((detection.shouldFallback /\ detection.reason = ReasonNoscript)
            <=> (BodyTextLength < 100 /\ QualifyingAt # {}))

C25_Witness ==
    /\ NoscriptEvaluated
    /\ BodyTextLength < 100
    /\ \E i \in DisqualifiedAt : \E j \in QualifyingAt : i < j
    /\ detection.shouldFallback
    /\ detection.reason = ReasonNoscript

\* C26: when Stage 1 is evaluated and some element with id root, app, __next,
\* __nuxt or __svelte has, script and style removed, no text but white space
\* or one loading phrase ("loading", "loading...", in any case) and no child
\* element with text of its own, the call flags fallback with the "Empty SPA
\* root" reason; a child whose only text is white space or a loading phrase
\* does not count as text of its own, and when every such element has a
\* child with real text the call does not flag for this reason.
Stage1Evaluated == Detected /\ "isEmptyRootDiv" \in detection.evaluated
MountPoints ==
    {i \in DOMAIN Elements(doc.rawHtml, << >>) :
        Elements(doc.rawHtml, << >>)[i].el.id
            \in {IdRoot, IdApp, IdNext, IdNuxt, IdSvelte}}
MountPoint(i) == Elements(doc.rawHtml, << >>)[i].el
VisibleText(node) == trim(textContent(WithoutScripts(node)))
IsBlankOrLoading(text) ==
    text = << >> \/ toLowerCase(text) \in LOADING_INDICATORS
ChildrenWithOwnText(element) ==
    {k \in DOMAIN element.kids :
        /\ element.kids[k].tag \notin {"#text", "script", "style"}
        /\ ~IsBlankOrLoading(VisibleText(element.kids[k]))}
LooksEmpty(element) ==
    /\ IsBlankOrLoading(VisibleText(element))
    /\ ChildrenWithOwnText(element) = {}

C26_EmptyRootIsFlagged ==
    Stage1Evaluated =>
        /\ (\E i \in MountPoints : LooksEmpty(MountPoint(i)))
               => (detection.shouldFallback /\ detection.reason = ReasonEmptyRoot)
        /\ (\A i \in MountPoints : ChildrenWithOwnText(MountPoint(i)) # {})
               => detection.reason # ReasonEmptyRoot

C26_Witness ==
    /\ Stage1Evaluated
    /\ \E i \in MountPoints :
          /\ LooksEmpty(MountPoint(i))
          /\ VisibleText(MountPoint(i)) # << >>
          /\ \E k \in DOMAIN MountPoint(i).kids :
                VisibleText(MountPoint(i).kids[k]) = VisibleText(MountPoint(i))
    /\ detection.shouldFallback
    /\ detection.reason = ReasonEmptyRoot

(***************************************************************************)
(* Further claims about the orchestrator.                                  *)
(***************************************************************************)
\* C27: in auto mode a static response without a Content-Type header is
\* treated as HTML: the non-HTML shortcut is not taken, Stage 1 of the
\* detector runs on it, and when Stage 1 flags the page the static result is
\* not final and the call goes on to the capability check and the render
\* fetch.
ProbedWithoutContentType ==
    /\ req.mode = "auto"
    /\ staticResult # NoProbe
    /\ staticResult.contentType = Absent
    /\ pc # "probed"

C27_NoContentTypeIsTreatedAsHtml ==
    ProbedWithoutContentType =>
        /\ did.detect >= 1
        /\ detectNeedForBrowser(staticResult.page, FALSE, req.raw, "stage1") =>
              /\ did.detect = 1
              /\ fetched # StaticFinal
              /\ pc = "ensure" \/ did.check = 1

\* C27 witness: an auto-mode call got an empty application shell without a
\* Content-Type header and returned the rendered page.
C27_Witness ==
    /\ ProbedWithoutContentType
    /\ staticResult.page = "shell"
    /\ Returned
    /\ did.render = 1
    /\ outcome.strategyUsed = "headless"

\* C28: whatever the interleaving of a readFromCache call with writeToCache
\* calls on the same key, a read that returns an entry checked the
\* modification time of the write that stored that entry, and that write is
\* not older than the TTL at the time of the check.
ReadRaceReturnedEntry ==
    /\ kPhase = "readRace"
    /\ calls.pc = "returned"
    /\ calls.status = "entry"

C28_FreshnessAndContentOfSameWrite ==
    ReadRaceReturnedEntry =>
        /\ calls.mtimeOf = calls.entry
        /\ bytes.log[calls.entry].at + calls.ttlMs > calls.checkedAt

\* C29: a call that fails before the cache write (the static fetch, the
\* capability check or the render fetch rejects) never reached the write, and
\* no step of a call that has not written changes the cache: the entry is
\* after the failed call what it was before, also when the auto-mode probe
\* succeeded and the render fallback failed.
FailedBeforeWrite == failure \in {"static", "check", "render"}

C29_FailedCallLeavesCacheAlone ==
    /\ [](FailedBeforeWrite => (pc = "failed" /\ did.write = 0))
    /\ [][(pc' # pc /\ did'.write = 0 /\ failure' # "write") => files' = files]_vars

\* C29 witness: an auto-mode call with caching enabled whose static probe
\* succeeded and whose render fetch failed, with the earlier static entry
\* still in the cache.
C29_Witness ==
    /\ FailedBeforeWrite
    /\ failure = "render"
    /\ req.mode = "auto"
    /\ ~req.noCache
    /\ staticResult # NoProbe
    /\ did.write = 0
    /\ OrchFile.kind = "json"

(***************************************************************************)
(* A further claim about the render fetch.                                 *)
(***************************************************************************)
\* C30: when fetchWithBrowser has returned or failed, the browser it
\* launched is closed, whichever step ended the call.
RenderEnded ==
    IF browser = NoCall THEN FALSE
    ELSE browser.op = "fetchWithBrowser" /\ browser.pc \in {"ok", "failed"}

C30_BrowserClosedWhenRenderEnds == RenderEnded => ~browser.open

====
